---- MODULE Spec2Model ----
(***************************************************************************)
(* Crawl-and-extract pipeline of car_scraper.py (class CarScraper, main).  *)
(* One sequential worker: main() constructs the scraper, then              *)
(* scrape_all_brands_and_models walks brands -> models -> trims, every     *)
(* page being fetched through make_request (politeness delay, bounded      *)
(* retry with exponential backoff).                                        *)
(*                                                                         *)
(* Strings that the code builds by formatting are modelled as tuples of    *)
(* their parts: full_name "{Brand} {model} {label}" is                     *)
(* <<Title(brand), model, label>>; a URL is the tuple of its path segments *)
(* below /en/new-car.                                                      *)
(***************************************************************************)
EXTENDS Integers, Sequences, FiniteSets, TLC

(* ---------------- bounds of the explored universe ---------------- *)
\* at most this many matching anchors on one listing page
MaxAnchors == 2
\* at most this many environment faults (failed GETs, failed file writes) in one run
MaxFaults == 3
\* at most this many matching anchors over all listing pages served in one run
MaxSiteAnchors == 5

(* ---------------- program constants ---------------- *)
\* make_request(self, url, max_retries=3)
max_retries == 3

\* universe of names occurring in hrefs and anchor texts
BrandNames == {"bmw", "kia"}
ModelNames == {"rio", "x5"}
TrimLabels == {"base", "top"}
\* the root sentinel dropped by get_brands
RootSentinel == "new-car"

\* str.title() on the brand names of the universe
Title(brand) ==
  CASE brand = "bmw" -> "Bmw"
    [] brand = "kia" -> "Kia"
    [] OTHER -> brand

\* features_mapping.csv as read by pandas: rows (website, output_csv, d_type)
FeaturesFile ==
  << [website |-> "Official Price ", output_csv |-> "Official_Price_EGP", d_type |-> "int"],
     [website |-> "market price",    output_csv |-> "Market_Price_EGP",   d_type |-> "int"] >>

\* str(...).lower().strip() on the phrases of FeaturesFile
Normalize(s) ==
  CASE s = "Official Price " -> "official price"
    [] OTHER -> s

None == [ok |-> FALSE, anchors |-> <<>>, blocks |-> <<>>]
Empty == <<>>

(* ---------------- state ---------------- *)
VARIABLES
  pc,               \* position of the single worker
  features_mapping, \* self.features_mapping: entries in dict (insertion) order
  attrs,            \* instance attributes set so far by __init__
  csv_file,         \* scrapped_data.csv: <<>> when absent, else the sequence of its lines
  scraped_trims,    \* self.scraped_trims
  stats,            \* self.stats
  specific_brands,  \* argument specific_brands (<<>> models None / empty list)
  excluded_brands,  \* self.excluded_brands
  brands, brand_idx,
  models, model_idx,
  trims, trim_idx,
  req,              \* the make_request call in progress or last finished
  logger_errors,    \* records emitted through self.logger.error
  error_log_lines,  \* lines appended to scrapper_error_log.txt
  summary,          \* TRUE once the final statistics have been logged
  exit_code,        \* process exit status, -1 while running
  last_io,          \* last blocking operation: "none", "wait" or "get"
  faults,           \* environment faults injected so far
  served,           \* anchors served so far on listing pages
  soup,             \* scrape_trim_data: the parsed detail page (None outside the call)
  row_data,         \* scrape_trim_data: the row being built (empty outside the call)
  hist              \* observation of the run (never read by the program)

vars == << pc, features_mapping, attrs, csv_file, scraped_trims, stats,
           specific_brands, excluded_brands, brands, brand_idx, models,
           model_idx, trims, trim_idx, req, logger_errors,
           error_log_lines, summary, exit_code, last_io, faults, served,
           soup, row_data, hist >>

(* ---------------- helpers ---------------- *)
Range(s) == { s[i] : i \in 1..Len(s) }

SeqsUpTo(S, n) == UNION { [1..k -> S] : k \in 0..n }

\* variant: the comprehension keeps every entry
SeqFilter_all(seq, S) == seq

RECURSIVE SeqFilter(_, _)
\* list comprehension [x for x in s if x in keep]
SeqFilter(s, keep) ==
  IF s = <<>> THEN <<>>
  ELSE IF Head(s) \in keep THEN <<Head(s)>> \o SeqFilter(Tail(s), keep)
       ELSE SeqFilter(Tail(s), keep)

(* ---------------- pages the site can serve ---------------- *)
\* catalog root: the hrefs matched by /en/new-car/[^/]+/?$, by last segment
RootPages ==
  { [ok |-> TRUE, anchors |-> a, blocks |-> <<>>] :
      a \in SeqsUpTo(BrandNames \cup {RootSentinel}, MaxAnchors) }

\* brand page: the anchors matched by /en/new-car/{brand}/[^/]+/?$;
\* available = the anchor text carries no '_error_' / 'not available' marker
ModelAnchors ==
  [name : ModelNames, available : {TRUE}] \cup
  { [name |-> CHOOSE m \in ModelNames : TRUE, available |-> FALSE] }
BrandPages ==
  { [ok |-> TRUE, anchors |-> a, blocks |-> <<>>] :
      a \in SeqsUpTo(ModelAnchors, MaxAnchors) }

\* model page: anchors to /en/new-car/{brand}/{model}/{digits}...; exact = the
\* href ends after the digits (matches the $-anchored pattern of the direct
\* scan); inrow = the anchor sits in a table row of its own and its href goes
\* on after the digits (matched by the row scan only); text = the stripped
\* anchor text ("" when blank)
TrimAnchors ==
  { a \in [text : TrimLabels, exact : BOOLEAN, inrow : BOOLEAN] :
      a.exact # a.inrow }
  \cup { [text |-> "", exact |-> TRUE, inrow |-> FALSE] }
ModelPages ==
  { [ok |-> TRUE, anchors |-> a, blocks |-> <<>>] :
      a \in SeqsUpTo(TrimAnchors, MaxAnchors) }

\* A text is the sequence of its whitespace-separated tokens, in lower case.
\* split() of the dictionary keys and price phrases of the universe
Words(key) ==
  CASE key = "installment" -> <<"installment">>
    [] key = "minimum installment" -> <<"minimum", "installment">>
    [] key = "minimum deposit" -> <<"minimum", "deposit">>
    [] key = "official price" -> <<"official", "price">>
    [] key = "market price" -> <<"market", "price">>
    [] OTHER -> <<key>>

\* len(key) of the same keys
KeyLen(key) ==
  CASE key = "installment" -> 11
    [] key = "minimum installment" -> 19
    [] key = "minimum deposit" -> 15
    [] key = "official price" -> 14
    [] key = "market price" -> 12
    [] OTHER -> 1

\* the tokens made of digits only
NumberTokens == {"0", "5000", "500000"}

\* A detail page is a sequence of blocks, each separated from the next by
\* whitespace: tag "p" is a paragraph of running text, "tr" a table row whose
\* items are its td cells, "li" the sibling elements of a list inside a
\* section under a features heading.
Block(tag, items) == [tag |-> tag, items |-> items]
DetailPage(blocks) == [ok |-> TRUE, anchors |-> <<>>, blocks |-> blocks]

\* trim detail pages served during the crawl: with and without an official price
DetailPages ==
  { DetailPage(<<>>),
    DetailPage(<< Block("p", << <<"official", "price", "500000", "egp">> >>) >>) }

(* ---------------- pure parts of the code ---------------- *)
RECURSIVE DictInsert(_, _)
\* mapping[website_name] = {...}: an existing key keeps its place, last value wins
DictInsert(d, e) ==
  IF d = <<>> THEN <<e>>
  ELSE IF Head(d).website = e.website THEN <<e>> \o Tail(d)
       ELSE <<Head(d)>> \o DictInsert(Tail(d), e)

RECURSIVE LoadMapping(_, _)
LoadMapping(rows, acc) ==
  IF rows = <<>> THEN acc
  ELSE LoadMapping(Tail(rows),
         DictInsert(acc, [website |-> Normalize(Head(rows).website),
                          output_csv |-> Head(rows).output_csv,
                          d_type |-> Head(rows).d_type]))

\* headers of initialize_csv
Headers(mapping) ==
  <<"car_brand", "car_model", "car_trim">> \o
  [i \in 1..Len(mapping) |-> mapping[i].output_csv]

RECURSIVE ParseBrands(_, _)
\* loop of get_brands over brand_links
ParseBrands(anchors, acc) ==
  IF anchors = <<>> THEN acc
  ELSE LET brand == Head(anchors) IN
       IF brand # "" /\ brand # RootSentinel /\ brand \notin Range(acc)
       THEN ParseBrands(Tail(anchors), Append(acc, brand))
       ELSE ParseBrands(Tail(anchors), acc)

RECURSIVE ParseModels(_, _, _)
\* loop of get_models over model_links
ParseModels(brand, anchors, acc) ==
  IF anchors = <<>> THEN acc
  ELSE LET a == Head(anchors) IN
       IF ~a.available THEN ParseModels(brand, Tail(anchors), acc)
       ELSE IF a.name # ""
            THEN ParseModels(brand, Tail(anchors),
                   Append(acc, [name |-> a.name, url |-> <<brand, a.name>>]))
            ELSE ParseModels(brand, Tail(anchors), acc)

FullName(brand, model_name, trim_name) == <<Title(brand), model_name, trim_name>>

RECURSIVE ScanTrims_rows(_, _, _, _, _, _)
\* variant: the table-row scan does not consult the dedup set
ScanTrims_rows(brand, model_name, anchors, seen, direct, acc) ==
  IF anchors = <<>> THEN acc
  ELSE LET a == Head(anchors)
           matched == IF direct THEN a.exact ELSE a.inrow
           full == FullName(brand, model_name, a.text)
       IN IF matched /\ a.text # "" /\ (full \notin seen \/ ~direct)
          THEN ScanTrims_rows(brand, model_name, Tail(anchors), seen, direct,
                 Append(acc, [name |-> a.text, full_name |-> full,
                              url |-> <<brand, model_name, a.text>>]))
          ELSE ScanTrims_rows(brand, model_name, Tail(anchors), seen, direct, acc)

RECURSIVE ScanTrims(_, _, _, _, _, _)
\* one scan loop of get_trims; direct = TRUE for the anchor scan, FALSE for
\* the table-row scan
ScanTrims(brand, model_name, anchors, seen, direct, acc) ==
  IF anchors = <<>> THEN acc
  ELSE LET a == Head(anchors)
           matched == IF direct THEN a.exact ELSE a.inrow
           full == FullName(brand, model_name, a.text)
       IN IF matched /\ a.text # "" /\ full \notin seen
          THEN ScanTrims(brand, model_name, Tail(anchors), seen, direct,
                 Append(acc, [name |-> a.text, full_name |-> full,
                              url |-> <<brand, model_name, a.text>>]))
          ELSE ScanTrims(brand, model_name, Tail(anchors), seen, direct, acc)

\* body of get_trims after the fetch
ParseTrims(brand, model_name, anchors, seen) ==
  LET direct == ScanTrims(brand, model_name, anchors, seen, TRUE, <<>>)
  IN IF direct = <<>>
     THEN ScanTrims(brand, model_name, anchors, seen, FALSE, <<>>)
     ELSE direct

\* dict lookup feature_name in self.features_mapping
HasKey(mapping, key) == \E i \in 1..Len(mapping) : mapping[i].website = key
Lookup(mapping, key) ==
  mapping[CHOOSE i \in 1..Len(mapping) : mapping[i].website = key]

(* ---------------- values and convert_data_type ---------------- *)
\* A value is the pair of its Python type and its content; the content of a
\* number is the sequence of digit groups whose concatenation is its decimal
\* writing, of a bool <<"True">> or <<"False">>, of a str its text.
Value(kind, v) == [kind |-> kind, v |-> v]
\* Python None
NoValue == Value("NoneType", <<>>)
PyTrue == Value("bool", <<"True">>)
PyFalse == Value("bool", <<"False">>)

\* variant: the bool conversion reads every non-empty text as present
Negatives_none == {}

\* the texts that the bool conversion reads as absent
Negatives == { <<"no">>, <<"false">>, <<"n/a">>, <<"not", "available">> }

RECURSIVE DigitGroups(_)
\* re.findall(r'\d+', value.replace(',', '')) on a text
DigitGroups(text) ==
  IF text = <<>> THEN <<>>
  ELSE IF Head(text) \in NumberTokens
       THEN <<Head(text)>> \o DigitGroups(Tail(text))
       ELSE DigitGroups(Tail(text))

\* convert_data_type(value, data_type)
ConvertDataType(value, data_type) ==
  IF value = <<>> THEN NoValue
  ELSE CASE data_type = "int" ->
              IF DigitGroups(value) # <<>>
              THEN Value("int", DigitGroups(value)) ELSE NoValue
         [] data_type = "float" ->
              IF DigitGroups(value) # <<>>
              THEN Value("float", <<Head(DigitGroups(value))>>) ELSE NoValue
         [] data_type = "bool" ->
              IF value \in Negatives THEN PyFalse ELSE PyTrue
         [] OTHER -> Value("str", value)

\* bool(value) as taken by "if value" / "not value"
Truthy(val) ==
  CASE val.kind = "NoneType" -> FALSE
    [] val.kind \in {"int", "float"} -> \E i \in 1..Len(val.v) : val.v[i] # "0"
    [] val.kind = "bool" -> val = PyTrue
    [] OTHER -> val.v # <<>>

(* ---------------- matching on page text ---------------- *)
\* the key occurs in the text at position i
OccursAt(text, words, i) ==
  /\ i + Len(words) - 1 <= Len(text)
  /\ SubSeq(text, i, i + Len(words) - 1) = words

\* "website_name in text"
Contains(text, key) == \E i \in 1..Len(text) : OccursAt(text, Words(key), i)

\* (\d+(?:,\d+)*)\s*egp at position j
IsAmount(text, j) ==
  text[j] \in NumberTokens /\ j < Len(text) /\ text[j + 1] = "egp"
\* variant: the numeric pattern of the full-text pass captures nothing
IsNumber_never(text, j) == FALSE

\* (\d+(?:\.\d+)?(?:,\d+)*)\s*(\w*) at position j
IsNumber(text, j) == text[j] \in NumberTokens
\* ([a-zA-Z0-9]+...) at position j
IsWord(text, j) == TRUE

\* the capture group of a pattern matches at position j
GroupAt(pattern, text, j) ==
  CASE pattern = "amount" -> IsAmount(text, j)
    [] pattern = "number" -> IsNumber(text, j)
    [] OTHER -> IsWord(text, j)

\* re.search(key + pattern, text): the token captured after the first
\* occurrence of the key that the pattern's group follows; <<>> without one
FollowedBy(text, key, pattern) ==
  LET hits == { i \in 1..Len(text) :
                  /\ OccursAt(text, Words(key), i)
                  /\ i + Len(Words(key)) <= Len(text)
                  /\ GroupAt(pattern, text, i + Len(Words(key))) }
  IN IF hits = {} THEN <<>>
     ELSE LET first == CHOOSE i \in hits : \A k \in hits : i <= k
          IN << text[first + Len(Words(key))] >>

RECURSIVE Flatten(_)
\* the concatenation of a sequence of texts
Flatten(texts) ==
  IF texts = <<>> THEN <<>> ELSE Head(texts) \o Flatten(Tail(texts))

\* soup.get_text().lower()
AllText(page) ==
  Flatten([i \in 1..Len(page.blocks) |-> Flatten(page.blocks[i].items)])

\* row_data[mapping['output_csv']] = value
Store(row, entry, val) == (entry.output_csv :> val) @@ row
\* variant: a value is stored only in a field the row does not hold yet
StoreIfNotNone_keep(row, entry, val) ==
  IF val # NoValue /\ entry.output_csv \notin DOMAIN row
  THEN Store(row, entry, val) ELSE row

\* "if converted_value is not None: row_data[...] = converted_value"
StoreIfNotNone(row, entry, val) ==
  IF val # NoValue THEN Store(row, entry, val) ELSE row

(* ---------------- scrape_basic_info ---------------- *)
\* price_patterns in dict order
PricePhrases ==
  << "official price", "market price", "minimum deposit", "minimum installment" >>

RECURSIVE PricePatterns(_, _, _, _)
\* the loop over price_patterns, from phrase k on
PricePatterns(mapping, text, row, k) ==
  IF k > Len(PricePhrases) THEN row
  ELSE LET feature_name == PricePhrases[k]
           match == FollowedBy(text, feature_name, "amount")
       IN IF match # <<>> /\ HasKey(mapping, feature_name)
          THEN PricePatterns(mapping, text,
                 Store(row, Lookup(mapping, feature_name),
                       ConvertDataType(match, Lookup(mapping, feature_name).d_type)),
                 k + 1)
          ELSE PricePatterns(mapping, text, row, k + 1)

\* index of the first entry, in dict order, whose key occurs in the text; 0 if none
FirstMatch(mapping, text) ==
  IF \E i \in 1..Len(mapping) : Contains(text, mapping[i].website)
  THEN CHOOSE i \in 1..Len(mapping) :
         /\ Contains(text, mapping[i].website)
         /\ \A k \in 1..(i - 1) : ~Contains(text, mapping[k].website)
  ELSE 0

\* "for website_name, mapping in items(): if website_name in text:
\*  convert value_text; store if not None; break"
ConvertFirstMatch(mapping, text, value_text, row) ==
  IF FirstMatch(mapping, text) = 0 THEN row
  ELSE LET entry == mapping[FirstMatch(mapping, text)]
       IN StoreIfNotNone(row, entry, ConvertDataType(value_text, entry.d_type))

\* soup.find_all(['td','th']) with, for each cell, the text the loop converts:
\* the next sibling cell's when there is one, else the cell's own
RECURSIVE TableCells(_)
TableCells(blocks) ==
  IF blocks = <<>> THEN <<>>
  ELSE (IF Head(blocks).tag = "tr"
        THEN [j \in 1..Len(Head(blocks).items) |->
                [text |-> Head(blocks).items[j],
                 value_text |-> IF j < Len(Head(blocks).items)
                                THEN Head(blocks).items[j + 1]
                                ELSE Head(blocks).items[j]]]
        ELSE <<>>) \o TableCells(Tail(blocks))

RECURSIVE ScanCells(_, _, _)
\* the loop over table_cells
ScanCells(mapping, cells, row) ==
  IF cells = <<>> THEN row
  ELSE ScanCells(mapping, Tail(cells),
         ConvertFirstMatch(mapping, Head(cells).text, Head(cells).value_text, row))

(* ---------------- scrape_specifications ---------------- *)
RECURSIVE InsertByLen(_, _)
\* place of an entry among entries sorted longest key first (stable)
InsertByLen(sorted, e) ==
  IF sorted = <<>> THEN <<e>>
  ELSE IF KeyLen(e.website) > KeyLen(Head(sorted).website)
       THEN <<e>> \o sorted
       ELSE <<Head(sorted)>> \o InsertByLen(Tail(sorted), e)

RECURSIVE SortedFeatures(_)
\* sorted(self.features_mapping.items(), key=lambda x: len(x[0]), reverse=True)
SortedFeatures(mapping) ==
  IF mapping = <<>> THEN <<>>
  ELSE InsertByLen(SortedFeatures(SubSeq(mapping, 1, Len(mapping) - 1)),
                   mapping[Len(mapping)])

\* body of the loop over sorted_features for one entry (output columns
\* without a special pattern)
FullTextEntry(text, entry, row) ==
  IF ~Contains(text, entry.website) THEN row
  ELSE IF entry.d_type = "bool" THEN Store(row, entry, PyTrue)
  ELSE IF entry.d_type \in {"int", "float"}
       THEN StoreIfNotNone(row, entry,
              ConvertDataType(FollowedBy(text, entry.website, "number"), entry.d_type))
       ELSE StoreIfNotNone(row, entry,
              ConvertDataType(FollowedBy(text, entry.website, "word"), entry.d_type))

RECURSIVE FullText(_, _, _)
\* the loop over sorted_features
FullText(sorted, text, row) ==
  IF sorted = <<>> THEN row
  ELSE FullText(Tail(sorted), text, FullTextEntry(text, Head(sorted), row))

\* extract_value_from_element: the text of the first of the next three
\* siblings that is non-empty and differs from the element's, else its own
ExtractValueFromElement(items, j) ==
  LET sib == { k \in (j + 1)..(j + 3) :
                 k <= Len(items) /\ items[k] # <<>> /\ items[k] # items[j] }
  IN IF sib = {} THEN items[j]
     ELSE items[CHOOSE k \in sib : \A m \in sib : k <= m]

RECURSIVE SectionElements(_)
\* the elements visited by extract_features_from_section over all sections,
\* each with the text extract_value_from_element returns for it
SectionElements(blocks) ==
  IF blocks = <<>> THEN <<>>
  ELSE (IF Head(blocks).tag = "li"
        THEN [j \in 1..Len(Head(blocks).items) |->
                [text |-> Head(blocks).items[j],
                 value_text |-> ExtractValueFromElement(Head(blocks).items, j)]]
        ELSE <<>>) \o SectionElements(Tail(blocks))

RECURSIVE ExtractFeaturesFromSection(_, _, _)
\* the loop of extract_features_from_section over text_elements
ExtractFeaturesFromSection(mapping, elements, row) ==
  IF elements = <<>> THEN row
  ELSE LET e == Head(elements)
           i == FirstMatch(mapping, e.text)
       IN ExtractFeaturesFromSection(mapping, Tail(elements),
            IF i = 0 THEN row
            ELSE IF mapping[i].d_type = "bool" THEN Store(row, mapping[i], PyTrue)
            ELSE StoreIfNotNone(row, mapping[i],
                   ConvertDataType(e.value_text, mapping[i].d_type)))

RECURSIVE TableRows(_)
\* soup.find_all('tr') with at least two cells: cells[0] and cells[1]
TableRows(blocks) ==
  IF blocks = <<>> THEN <<>>
  ELSE (IF Head(blocks).tag = "tr" /\ Len(Head(blocks).items) >= 2
        THEN << [text |-> Head(blocks).items[1],
                 value_text |-> Head(blocks).items[2]] >>
        ELSE <<>>) \o TableRows(Tail(blocks))

(* ---------------- scrape_trim_data ---------------- *)
\* row_data = {'car_brand': ..., 'car_model': ..., 'car_trim': ...}
InitialRow(brand, model_name, trim) ==
  [f \in {"car_brand", "car_model", "car_trim"} |->
     CASE f = "car_brand" -> brand
       [] f = "car_model" -> model_name
       [] OTHER -> trim.full_name]

\* scrape_basic_info(soup, row_data)
ScrapeBasicInfo(mapping, page, row) ==
  ScanCells(mapping, TableCells(page.blocks),
            PricePatterns(mapping, AllText(page), row, 1))

\* scrape_specifications(soup, row_data)
ScrapeSpecifications(mapping, page, row) ==
  ScanCells(mapping, TableRows(page.blocks),
    ExtractFeaturesFromSection(mapping, SectionElements(page.blocks),
      FullText(SortedFeatures(mapping), AllText(page), row)))

\* row_data.get(name)
Get(row, name) == IF name \in DOMAIN row THEN row[name] ELSE NoValue

\* variant: the post-fill tests whether the fields are in the row
PostFill_absent(row) ==
  IF "Market_Price_EGP" \notin DOMAIN row /\ "Official_Price_EGP" \in DOMAIN row
  THEN ("Market_Price_EGP" :> row["Official_Price_EGP"]) @@ row
  ELSE row

\* "if not row_data.get('Market_Price_EGP') and row_data.get('Official_Price_EGP')"
PostFill(row) ==
  IF ~Truthy(Get(row, "Market_Price_EGP")) /\ Truthy(Get(row, "Official_Price_EGP"))
  THEN ("Market_Price_EGP" :> row["Official_Price_EGP"]) @@ row
  ELSE row

\* row_data of scrape_trim_data just before save_row_to_csv
BuildRow(mapping, brand, model_name, trim, page) ==
  PostFill(ScrapeSpecifications(mapping, page,
             ScrapeBasicInfo(mapping, page, InitialRow(brand, model_name, trim))))

\* variant: the absent fields are skipped instead of written empty
CsvRow_dense(headers, row) ==
  LET present == SelectSeq(headers, LAMBDA h : h \in DOMAIN row)
  IN [i \in 1..Len(present) |-> <<row[present[i]]>>]

\* line written by save_row_to_csv under the header line of the file
CsvRow(headers, row) ==
  [i \in 1..Len(headers) |->
     IF headers[i] \in DOMAIN row THEN <<row[headers[i]]>> ELSE Empty]

(* ---------------- initial state ---------------- *)
\* variant: the file names are assigned before the dictionary is loaded
AttrsAtLoad_all ==
  {"base_url", "session", "min_delay", "max_delay", "brand_delay",
   "excluded_brands", "logger", "csv_filename", "error_log_filename"}

\* attributes assigned by __init__ before it calls load_features_mapping
AttrsAtLoad ==
  {"base_url", "session", "min_delay", "max_delay", "brand_delay",
   "excluded_brands", "logger"}
\* attributes assigned by __init__ after load_features_mapping returned
AttrsAfterLoad ==
  {"features_mapping", "csv_filename", "error_log_filename", "scraped_trims", "stats"}

NoReq == [url |-> <<>>, attempt |-> 0, ret |-> "none", events |-> <<>>,
          errors0 |-> 0, outcome |-> "none"]

\* what is observed of the whole run
RunHist == [dict |-> "unknown", root_failed |-> FALSE, root_found |-> -1,
            brands_visited |-> <<>>]
\* what is observed of the brand being processed
BrandHist == [models_visited |-> <<>>, trims_visited |-> <<>>, discovered |-> {},
              exhausted_trims |-> 0, exhausted_detail |-> 0, write_failed |-> FALSE]
\* what is observed of the last discovery call: who returned, the list it
\* returned, the dedup set it was called with, whether its page listed an
\* identity of that set on a direct anchor (hit_direct) or in a row (hit_row)
CallHist == [by |-> "none", returned |-> <<>>, seen |-> {},
             hit_direct |-> FALSE, hit_row |-> FALSE]

Init ==
  /\ pc = "main"
  /\ features_mapping = <<>>
  /\ attrs = {}
  /\ csv_file = <<>>
  /\ scraped_trims = {}
  /\ stats = [brands_processed |-> 0, models_processed |-> 0,
              trims_processed |-> 0, errors |-> 0, start_time |-> "None"]
  /\ \E args \in { << <<>>, <<>> >>, << <<"bmw">>, <<>> >>, << <<>>, <<"kia">> >> } :
       specific_brands = args[1] /\ excluded_brands = args[2]
  /\ brands = <<>> /\ brand_idx = 0
  /\ models = <<>> /\ model_idx = 0
  /\ trims = <<>> /\ trim_idx = 0
  /\ req = NoReq
  /\ logger_errors = 0
  /\ error_log_lines = 0
  /\ summary = FALSE
  /\ exit_code = -1
  /\ last_io = "none"
  /\ faults = 0
  /\ served = 0
  /\ soup = None
  /\ row_data = <<>>
  /\ hist = RunHist @@ BrandHist @@ CallHist

(* ---------------- building blocks of the actions ---------------- *)
Crawl == << brands, brand_idx, models, model_idx, trims, trim_idx >>
Args == << specific_brands, excluded_brands >>
\* locals of scrape_trim_data
Frame == << soup, row_data >>
Logs == << logger_errors, error_log_lines >>

\* entry of make_request(url): nothing has happened yet but the call
StartRequest(url, ret) ==
  /\ req' = [url |-> url, attempt |-> 0, ret |-> ret, events |-> <<>>,
             errors0 |-> stats.errors, outcome |-> "running"]
  /\ pc' = "make_request"

\* log_error(message) n times with error_log_filename assigned
LogError(n) ==
  /\ logger_errors' = logger_errors + n
  /\ error_log_lines' = error_log_lines + n

\* variant: the backoff exponent counts the attempts from 1
WaitEvent_late(attempt) ==
  IF attempt > 0 THEN [ev |-> "sleep", arg |-> 2 ^ (attempt + 1)]
  ELSE [ev |-> "wait_politely", arg |-> 0]

\* the wait at the top of one iteration of the retry loop (attempt from 0)
WaitEvent(attempt) ==
  IF attempt > 0 THEN [ev |-> "sleep", arg |-> 2 ^ attempt]
  ELSE [ev |-> "wait_politely", arg |-> 0]

\* variant: the first attempt of a call issues its GET at once
AttemptEvents_nowait(attempt) ==
  IF attempt = 0 THEN << [ev |-> "get", arg |-> attempt + 1] >>
  ELSE << WaitEvent(attempt), [ev |-> "get", arg |-> attempt + 1] >>

\* the wait and the GET of one iteration of the retry loop
AttemptEvents(attempt) ==
  << WaitEvent(attempt), [ev |-> "get", arg |-> attempt + 1] >>

\* variant: the error is counted once per request, when the retries are exhausted
ErrorsAfterFailure_once(errors, attempt) ==
  IF attempt = max_retries - 1 THEN errors + 1 ELSE errors

\* variant: the first attempt's failure is not counted, only the retries'
ErrorsAfterFailure_retries(errors, attempt) ==
  IF attempt = 0 THEN errors ELSE errors + 1

\* self.stats['errors'] += 1 in the handler of a failed attempt
ErrorsAfterFailure(errors, attempt) == errors + 1

\* variant: the handler of the last attempt re-raises
AfterLastFailure_raise(caller) == "crashed"

\* where control goes after the handler of the last attempt: return None
AfterLastFailure(caller) == caller

\* variant: scrape_trim_data without its duplicate check
AlreadyScraped_never(full_name, seen) == FALSE

\* "if full_name in self.scraped_trims" at the top of scrape_trim_data
AlreadyScraped(full_name, seen) == full_name \in seen

\* variant: the brand loop is left ("break") instead of continued
NextBrandIdx_break(idx) == Len(brands) + 1

\* "continue" of the brand loop, and its normal end of iteration
NextBrandIdx(idx) == idx + 1
\* "continue" of the model loop, and its normal end of iteration
NextModelIdx(idx) == idx + 1

\* variant: main exits non-zero when the catalog root could not be fetched
ExitStatus_root == IF hist.root_failed THEN 1 ELSE 0

\* status the interpreter exits with after main() returned
ExitStatus == 0

(* ---------------- main() and CarScraper.__init__ ---------------- *)
\* __init__ with features_mapping.csv readable
init_load_ok ==
  /\ pc = "main"
  /\ features_mapping' = LoadMapping(FeaturesFile, <<>>)
  /\ attrs' = AttrsAtLoad \cup AttrsAfterLoad
  /\ pc' = "constructed"
  /\ hist' = [hist EXCEPT !.dict = "ok"]
  /\ UNCHANGED << csv_file, scraped_trims, stats, Args, Frame, Crawl, req, Logs,
                  summary, exit_code, last_io, faults, served >>

\* __init__ with features_mapping.csv missing or unparseable: the handler of
\* load_features_mapping calls log_error, which reads self.error_log_filename
init_load_fail ==
  /\ pc = "main"
  /\ \E cause \in {"missing", "malformed"} : hist' = [hist EXCEPT !.dict = cause]
  /\ logger_errors' = logger_errors + 1
  /\ IF "error_log_filename" \in AttrsAtLoad
     THEN \* the handler returns {} and construction goes on
          /\ error_log_lines' = error_log_lines + 1
          /\ features_mapping' = <<>>
          /\ attrs' = AttrsAtLoad \cup AttrsAfterLoad
          /\ pc' = "constructed"
          /\ exit_code' = exit_code
     ELSE \* AttributeError leaves the handler, __init__ and main
          /\ error_log_lines' = error_log_lines
          /\ features_mapping' = features_mapping
          /\ attrs' = AttrsAtLoad
          /\ pc' = "crashed"
          /\ exit_code' = 1
  /\ UNCHANGED << csv_file, scraped_trims, stats, Args, Frame, Crawl, req,
                  summary, last_io, faults, served >>

(* ---------------- scrape_all_brands_and_models: start ---------------- *)
\* start_time, initialize_csv succeeding, then get_brands calls make_request
initialize_csv_ok ==
  /\ pc = "constructed"
  /\ stats' = [stats EXCEPT !.start_time = "t0"]
  /\ csv_file' = << Headers(features_mapping) >>
  /\ StartRequest(<<>>, "get_brands")
  /\ UNCHANGED << features_mapping, attrs, scraped_trims, Args, Frame, Crawl, Logs,
                  summary, exit_code, last_io, faults, hist, served >>

\* initialize_csv failing to open the file for writing: logged, run goes on
initialize_csv_fail ==
  /\ pc = "constructed"
  /\ faults < MaxFaults
  /\ faults' = faults + 1
  /\ stats' = [stats EXCEPT !.start_time = "t0"]
  /\ LogError(1)
  /\ StartRequest(<<>>, "get_brands")
  /\ UNCHANGED << features_mapping, attrs, csv_file, scraped_trims, Args, Frame, Crawl,
                  summary, exit_code, last_io, hist, served >>

(* ---------------- make_request ---------------- *)
\* one iteration of the retry loop whose GET, status check and parse succeed:
\* the wait, the GET, and the return of the parsed page to the caller
RequestOk(page) ==
  /\ pc = "make_request"
  /\ req.attempt < max_retries
  /\ Len(page.anchors) <= MaxSiteAnchors - served
  /\ served' = served + Len(page.anchors)
  /\ req' = [req EXCEPT !.events = @ \o AttemptEvents(req.attempt),
                        !.outcome = "ok"]
  /\ last_io' = "get"

\* one iteration of the retry loop that raises (timeout, status, parse)
make_request_fail ==
  /\ pc = "make_request"
  /\ req.attempt < max_retries
  /\ faults < MaxFaults
  /\ faults' = faults + 1
  /\ stats' = [stats EXCEPT !.errors = ErrorsAfterFailure(@, req.attempt)]
  /\ last_io' = "get"
  /\ IF req.attempt = max_retries - 1
     THEN /\ LogError(2)
          /\ req' = [req EXCEPT !.events = @ \o AttemptEvents(req.attempt),
                                !.outcome = "failed"]
          /\ pc' = AfterLastFailure(req.ret)
          /\ exit_code' = IF AfterLastFailure(req.ret) = "crashed" THEN 1 ELSE exit_code
          /\ hist' = [hist EXCEPT
               !.root_failed = @ \/ req.ret = "get_brands",
               !.exhausted_trims = IF req.ret = "get_trims" THEN @ + 1 ELSE @,
               !.exhausted_detail = IF req.ret = "scrape_trim_data" THEN @ + 1 ELSE @]
     ELSE /\ LogError(1)
          /\ req' = [req EXCEPT !.events = @ \o AttemptEvents(req.attempt),
                                !.attempt = @ + 1]
          /\ UNCHANGED << pc, exit_code, hist >>
  /\ UNCHANGED << features_mapping, attrs, csv_file, scraped_trims, Args, Frame, Crawl,
                  summary, served >>

\* make_request has returned None to its caller
ReturnedNone(caller) ==
  /\ pc = caller
  /\ UNCHANGED << req, last_io, served >>

(* ---------------- get_brands and the brand filter ---------------- *)
\* get_brands from the value make_request returned, then the filters of
\* scrape_all_brands_and_models
GetBrands(page) ==
  /\ LET found == IF page.ok THEN ParseBrands(page.anchors, <<>>) ELSE <<>>
         wanted == IF specific_brands # <<>>
                   THEN SeqFilter(found, Range(specific_brands))
                   ELSE found
         kept == SeqFilter(wanted, Range(wanted) \ Range(excluded_brands))
     IN /\ IF found = <<>>
           THEN \* "No brands found on website": return
                /\ LogError(1)
                /\ pc' = "returned"
                /\ UNCHANGED << brands, brand_idx >>
           ELSE /\ brands' = kept
                /\ brand_idx' = 1
                /\ pc' = "brand_loop"
                /\ UNCHANGED Logs
        /\ hist' = [hist EXCEPT !.root_found = Len(found), !.by = "get_brands",
                                !.returned = found]
  /\ UNCHANGED << features_mapping, attrs, csv_file, scraped_trims, stats, Args, Frame,
                  models, model_idx, trims, trim_idx, summary, exit_code,
                  faults >>

get_brands ==
  /\ req.ret = "get_brands"
  /\ \E page \in RootPages : RequestOk(page) /\ GetBrands(page)

get_brands_no_soup ==
  /\ ReturnedNone("get_brands")
  /\ GetBrands(None)

(* ---------------- the brand loop ---------------- *)
\* top of the brand loop with a brand left: brand delay (not before the
\* first), then get_models calls make_request
next_brand ==
  /\ pc = "brand_loop"
  /\ brand_idx <= Len(brands)
  /\ last_io' = IF brand_idx > 1 THEN "wait" ELSE last_io
  /\ StartRequest(<<brands[brand_idx]>>, "get_models")
  /\ hist' = [hist EXCEPT !.brands_visited = Append(@, brands[brand_idx]),
                          !.by = "pending"]
  /\ UNCHANGED << features_mapping, attrs, csv_file, scraped_trims, stats, Args, Frame,
                  Crawl, Logs, summary, exit_code, faults, served >>

\* variant: the run returns without logging the final statistics
final_statistics_silent ==
  /\ pc = "brand_loop"
  /\ brand_idx > Len(brands)
  /\ pc' = "returned"
  /\ req' = NoReq
  /\ UNCHANGED << features_mapping, attrs, csv_file, scraped_trims, stats, Args, Frame,
                  Crawl, Logs, summary, exit_code, last_io, faults, hist,
                  served >>

\* the brand loop is exhausted: final statistics, return
final_statistics ==
  /\ pc = "brand_loop"
  /\ brand_idx > Len(brands)
  /\ summary' = TRUE
  /\ pc' = "returned"
  /\ req' = NoReq
  /\ UNCHANGED << features_mapping, attrs, csv_file, scraped_trims, stats, Args, Frame,
                  Crawl, Logs, exit_code, last_io, faults, hist, served >>

\* variant: a brand without models is counted as processed
NoModelsFound_counted == stats' = [stats EXCEPT !.brands_processed = @ + 1]

\* "if not models: log_info(No models found); continue": nothing is counted
NoModelsFound == stats' = stats

\* get_models from the value make_request returned, and "if not models: continue"
GetModels(page) ==
  /\ LET found == IF page.ok
                  THEN ParseModels(brands[brand_idx], page.anchors, <<>>)
                  ELSE <<>>
     IN /\ IF found = <<>>
           THEN /\ NoModelsFound
                /\ brand_idx' = NextBrandIdx(brand_idx)
                /\ pc' = "brand_loop"
                /\ UNCHANGED << models, model_idx >>
           ELSE /\ models' = found
                /\ model_idx' = 1
                /\ pc' = "model_loop"
                /\ UNCHANGED << brand_idx, stats >>
        /\ hist' = [BrandHist @@ hist
                      EXCEPT !.by = "get_models", !.returned = found]
  /\ UNCHANGED << features_mapping, attrs, csv_file, scraped_trims, Args, Frame,
                  brands, trims, trim_idx, Logs, summary, exit_code, faults >>

get_models ==
  /\ req.ret = "get_models"
  /\ \E page \in BrandPages : RequestOk(page) /\ GetModels(page)

get_models_no_soup ==
  /\ ReturnedNone("get_models")
  /\ GetModels(None)

(* ---------------- the model loop ---------------- *)
\* top of the model loop with a model left: get_trims calls make_request
next_model ==
  /\ pc = "model_loop"
  /\ model_idx <= Len(models)
  /\ StartRequest(<<brands[brand_idx], models[model_idx].name>>, "get_trims")
  /\ hist' = [hist EXCEPT !.models_visited = Append(@, models[model_idx].name),
                          !.trims_visited = <<>>,
                          !.by = "pending"]
  /\ UNCHANGED << features_mapping, attrs, csv_file, scraped_trims, stats, Args, Frame,
                  Crawl, Logs, summary, exit_code, last_io, faults, served >>

\* the frames of the model loop and of the last call are gone
LeaveModelLoop ==
  /\ models' = <<>> /\ model_idx' = 0
  /\ req' = NoReq
  /\ hist' = BrandHist @@ CallHist @@ hist

\* the model loop is exhausted: brands_processed += 1, next brand
brand_done ==
  /\ pc = "model_loop"
  /\ model_idx > Len(models)
  /\ stats' = [stats EXCEPT !.brands_processed = @ + 1]
  /\ brand_idx' = NextBrandIdx(brand_idx)
  /\ pc' = "brand_loop"
  /\ LeaveModelLoop
  /\ UNCHANGED << features_mapping, attrs, csv_file, scraped_trims, Args, Frame,
                  brands, trims, trim_idx, Logs, summary, exit_code, last_io,
                  faults, served >>

\* identities of the non-blank trim anchors of a model page that the direct
\* scan (direct = TRUE) or the row scan (direct = FALSE) matches
Listed(brand, model_name, anchors, direct) ==
  { FullName(brand, model_name, anchors[i].text) :
      i \in { k \in 1..Len(anchors) :
                /\ anchors[k].text # ""
                /\ IF direct THEN anchors[k].exact ELSE anchors[k].inrow } }

\* get_trims from the value make_request returned, and "if not trims: continue"
GetTrims(page) ==
  /\ LET brand == brands[brand_idx]
         model_name == models[model_idx].name
         found == IF page.ok
                  THEN ParseTrims(brand, model_name, page.anchors, scraped_trims)
                  ELSE <<>>
     IN /\ IF found = <<>>
           THEN /\ model_idx' = NextModelIdx(model_idx)
                /\ pc' = "model_loop"
                /\ UNCHANGED << trims, trim_idx >>
           ELSE /\ trims' = found
                /\ trim_idx' = 1
                /\ pc' = "trim_loop"
                /\ UNCHANGED model_idx
        /\ hist' = [hist EXCEPT
             !.discovered = @ \cup { found[i].full_name : i \in 1..Len(found) },
             !.by = "get_trims", !.returned = found, !.seen = scraped_trims,
             !.hit_direct =
                Listed(brand, model_name, page.anchors, TRUE) \cap scraped_trims # {},
             !.hit_row =
                Listed(brand, model_name, page.anchors, FALSE) \cap scraped_trims # {}]
  /\ UNCHANGED << features_mapping, attrs, csv_file, scraped_trims, stats, Args, Frame,
                  brands, brand_idx, models, Logs, summary, exit_code, faults >>

get_trims ==
  /\ req.ret = "get_trims"
  /\ \E page \in ModelPages : RequestOk(page) /\ GetTrims(page)

get_trims_no_soup ==
  /\ ReturnedNone("get_trims")
  /\ GetTrims(None)

(* ---------------- the trim loop and scrape_trim_data ---------------- *)
\* top of the trim loop with a trim left whose identity is new:
\* scrape_trim_data calls make_request for the detail page
next_trim ==
  /\ pc = "trim_loop"
  /\ trim_idx <= Len(trims)
  /\ ~AlreadyScraped(trims[trim_idx].full_name, scraped_trims)
  /\ StartRequest(trims[trim_idx].url, "scrape_trim_data")
  /\ hist' = [CallHist @@ hist EXCEPT
                !.trims_visited = Append(@, trims[trim_idx].full_name)]
  /\ UNCHANGED << features_mapping, attrs, csv_file, scraped_trims, stats, Args, Frame,
                  Crawl, Logs, summary, exit_code, last_io, faults, served >>

\* scrape_trim_data returning at "Skipping duplicate trim", then
\* trims_processed += 1 in the loop
skip_duplicate_trim ==
  /\ pc = "trim_loop"
  /\ trim_idx <= Len(trims)
  /\ AlreadyScraped(trims[trim_idx].full_name, scraped_trims)
  /\ stats' = [stats EXCEPT !.trims_processed = @ + 1]
  /\ trim_idx' = trim_idx + 1
  /\ req' = NoReq
  /\ hist' = [CallHist @@ hist EXCEPT
                !.trims_visited = Append(@, trims[trim_idx].full_name)]
  /\ UNCHANGED << features_mapping, attrs, csv_file, scraped_trims, Args, Frame,
                  brands, brand_idx, models, model_idx, trims, pc,
                  Logs, summary, exit_code, last_io, faults, served >>

\* the frames of the trim loop and of the last call are gone
LeaveTrimLoop ==
  /\ trims' = <<>> /\ trim_idx' = 0
  /\ req' = NoReq
  /\ hist' = [CallHist @@ hist EXCEPT !.trims_visited = <<>>]

\* the trim loop is exhausted: models_processed += 1, next model
model_done ==
  /\ pc = "trim_loop"
  /\ trim_idx > Len(trims)
  /\ stats' = [stats EXCEPT !.models_processed = @ + 1]
  /\ model_idx' = NextModelIdx(model_idx)
  /\ pc' = "model_loop"
  /\ LeaveTrimLoop
  /\ UNCHANGED << features_mapping, attrs, csv_file, scraped_trims, Args, Frame,
                  brands, brand_idx, models, Logs, summary, exit_code, last_io,
                  faults, served >>

\* variant: the loop does not count the trim after scrape_trim_data returned
TrimProcessed_uncounted ==
  /\ stats' = stats
  /\ trim_idx' = trim_idx + 1
  /\ pc' = "trim_loop"

\* back in the trim loop after scrape_trim_data returned: trims_processed += 1
TrimProcessed ==
  /\ stats' = [stats EXCEPT !.trims_processed = @ + 1]
  /\ trim_idx' = trim_idx + 1
  /\ pc' = "trim_loop"

\* variant: the trim whose page could not be fetched is marked as scraped
ReturnWithoutSoup_marked ==
  /\ csv_file' = csv_file
  /\ scraped_trims' = scraped_trims \cup {trims[trim_idx].full_name}

\* "if not soup: return" in scrape_trim_data: nothing saved, nothing marked
ReturnWithoutSoup == UNCHANGED << csv_file, scraped_trims >>

\* scrape_trim_data after a failed fetch, then the loop's count
scrape_trim_data_no_soup ==
  /\ ReturnedNone("scrape_trim_data")
  /\ ReturnWithoutSoup
  /\ TrimProcessed
  /\ UNCHANGED << features_mapping, attrs, Args, Frame,
                  brands, brand_idx, models, model_idx, trims, Logs,
                  summary, exit_code, faults, hist >>

\* variant: the file is opened for writing, not appending, to add the row
SaveRowToCsv_rewrite(row, appended) ==
  IF appended
  THEN /\ csv_file # <<>>
       /\ csv_file' = << csv_file[1], CsvRow(csv_file[1], row) >>
       /\ UNCHANGED << faults, Logs >>
  ELSE /\ \/ csv_file = <<>> /\ faults' = faults
          \/ csv_file # <<>> /\ faults < MaxFaults /\ faults' = faults + 1
       /\ LogError(1)
       /\ UNCHANGED csv_file

\* variant: a failed append is swallowed without a log record
SaveRowToCsv_silent(row, appended) ==
  IF appended
  THEN /\ csv_file # <<>>
       /\ csv_file' = Append(csv_file, CsvRow(csv_file[1], row))
       /\ UNCHANGED << faults, Logs >>
  ELSE /\ \/ csv_file = <<>> /\ faults' = faults
          \/ csv_file # <<>> /\ faults < MaxFaults /\ faults' = faults + 1
       /\ UNCHANGED << csv_file, Logs >>

\* variant: the new row is written right under the header line
SaveRowToCsv_front(row, appended) ==
  IF appended
  THEN /\ csv_file # <<>>
       /\ csv_file' = << csv_file[1], CsvRow(csv_file[1], row) >> \o Tail(csv_file)
       /\ UNCHANGED << faults, Logs >>
  ELSE /\ \/ csv_file = <<>> /\ faults' = faults
          \/ csv_file # <<>> /\ faults < MaxFaults /\ faults' = faults + 1
       /\ LogError(1)
       /\ UNCHANGED csv_file

\* save_row_to_csv(row_data): appended = TRUE when the row was written,
\* FALSE when the handler inside caught a failure (file absent, or the
\* append fails)
SaveRowToCsv(row, appended) ==
  IF appended
  THEN /\ csv_file # <<>>
       /\ csv_file' = Append(csv_file, CsvRow(csv_file[1], row))
       /\ UNCHANGED << faults, Logs >>
  ELSE /\ \/ csv_file = <<>> /\ faults' = faults
          \/ csv_file # <<>> /\ faults < MaxFaults /\ faults' = faults + 1
       /\ LogError(1)
       /\ UNCHANGED csv_file

\* scrape_trim_data from the detail page on: row, post-fill, save, mark seen
ScrapeTrimData(page, appended) ==
  LET trim == trims[trim_idx]
      row == BuildRow(features_mapping, brands[brand_idx],
                           models[model_idx].name, trim, page)
  IN /\ SaveRowToCsv(row, appended)
     /\ scraped_trims' = scraped_trims \cup {trim.full_name}
     /\ hist' = [hist EXCEPT !.write_failed = @ \/ ~appended]

\* the detail page is fetched and its row appended
scrape_trim_data_saved ==
  /\ req.ret = "scrape_trim_data"
  /\ \E page \in DetailPages : RequestOk(page) /\ ScrapeTrimData(page, TRUE)
  /\ TrimProcessed
  /\ UNCHANGED << features_mapping, attrs, Args, Frame, brands, brand_idx, models,
                  model_idx, trims, summary, exit_code >>

\* the detail page is fetched and save_row_to_csv fails inside
scrape_trim_data_save_failed ==
  /\ req.ret = "scrape_trim_data"
  /\ \E page \in DetailPages : RequestOk(page) /\ ScrapeTrimData(page, FALSE)
  /\ TrimProcessed
  /\ UNCHANGED << features_mapping, attrs, Args, Frame, brands, brand_idx, models,
                  model_idx, trims, summary, exit_code >>

(* ---------------- end of main ---------------- *)
\* scrape_all_brands_and_models returned, main returns, the interpreter exits
main_return ==
  /\ pc = "returned"
  /\ exit_code' = ExitStatus
  /\ pc' = "exited"
  /\ UNCHANGED << features_mapping, attrs, csv_file, scraped_trims, stats, Args, Frame,
                  Crawl, req, Logs, summary, last_io, faults, hist, served >>

Next ==
  \/ init_load_ok
  \/ init_load_fail
  \/ initialize_csv_ok
  \/ initialize_csv_fail
  \/ make_request_fail
  \/ get_brands
  \/ get_brands_no_soup
  \/ next_brand
  \/ final_statistics
  \/ get_models
  \/ get_models_no_soup
  \/ next_model
  \/ brand_done
  \/ get_trims
  \/ get_trims_no_soup
  \/ next_trim
  \/ skip_duplicate_trim
  \/ model_done
  \/ scrape_trim_data_no_soup
  \/ scrape_trim_data_saved
  \/ scrape_trim_data_save_failed
  \/ main_return

Spec == Init /\ [][Next]_vars

\* the worker is the only process and every step it is at returns
LiveSpec == Spec /\ WF_vars(Next)

TypeOK ==
  /\ pc \in {"main", "constructed", "crashed", "make_request", "get_brands",
             "brand_loop", "get_models", "model_loop", "get_trims", "trim_loop",
             "scrape_trim_data", "returned", "exited"}
  /\ faults \in 0..MaxFaults
  /\ served \in 0..MaxSiteAnchors
  /\ scraped_trims \subseteq
       { FullName(b, m, t) : b \in BrandNames, m \in ModelNames, t \in TrimLabels }

(* ---------------- observations used by the properties ---------------- *)
\* the data lines of the dataset (everything below the header line)
DataRows == IF csv_file = <<>> THEN <<>> ELSE Tail(csv_file)

\* the car_trim field of a data line
CarTrim(row) == row[3]

\* number of data lines whose car_trim is the identity T
RowsOf(T) == Cardinality({ i \in 1..Len(DataRows) : CarTrim(DataRows[i]) = <<T>> })

\* attempts of the current make_request call that failed
FailedAttempts ==
  (Len(req.events) \div 2) - (IF req.outcome = "ok" THEN 1 ELSE 0)

IsPrefix(s, t) == Len(s) <= Len(t) /\ \A i \in 1..Len(s) : s[i] = t[i]

(* ======================= C1 ======================= *)
\* C1 - Dedup invariant: for every trim identity T the dataset holds at most
\* one row whose car_trim is T, whatever the catalog lists (the same trim
\* anchor twice, the same model twice) and whichever fetches fail.
C1_DedupInvariant ==
  \A i, j \in 1..Len(DataRows) :
     CarTrim(DataRows[i]) = CarTrim(DataRows[j]) => i = j

\* a page listed the same trim twice, its row was appended once and the
\* second entry was skipped as a duplicate
C1_Witness ==
  /\ pc = "trim_loop" /\ trim_idx = 3
  /\ trims[1].full_name = trims[2].full_name
  /\ RowsOf(trims[1].full_name) = 1
  /\ hist.trims_visited = << trims[1].full_name, trims[2].full_name >>
  /\ stats.trims_processed = 2
  /\ faults = 0

\* names of the entries of a discovery list
NamesOf(list) == [i \in 1..Len(list) |-> list[i].name]
FullNamesOf(list) == [i \in 1..Len(list) |-> list[i].full_name]

(* ======================= C2 ======================= *)
\* C2 - Discovery with a pre-seeded dedup set: the list get_trims returns
\* holds no trim whose full_name was in scraped_trims when it was called,
\* for the direct-anchor scan and for the table-row fallback scan alike.
C2_PreSeededSkipped ==
  hist.by = "get_trims" =>
    \A i \in 1..Len(hist.returned) : hist.returned[i].full_name \notin hist.seen

\* get_trims was called with a non-empty dedup set, found no direct anchor
\* to return, ran the row scan on a page listing a seen identity in a row
C2_Witness ==
  /\ hist.by = "get_trims"
  /\ hist.seen # {}
  /\ hist.hit_row
  /\ hist.returned = <<>>
  /\ req.outcome = "ok"

(* ======================= C3 ======================= *)
\* the brand being processed has several models, its model loop is over,
\* exactly one model page exhausted its retries and nothing else failed for good
OneModelFailed ==
  /\ pc = "model_loop" /\ model_idx > Len(models)
  /\ Len(models) >= 2
  /\ hist.exhausted_trims = 1
  /\ hist.exhausted_detail = 0
  /\ ~hist.write_failed

\* the rows of every trim discovered for the other models are in the dataset
OtherModelsRows == \A T \in hist.discovered : RowsOf(T) >= 1

\* the failed get_trims fetch has just returned None
ModelFetchFailed == pc = "get_trims" /\ req.outcome = "failed"

\* C3 as stated - Resilience to partial failure: with one model page failing
\* on every attempt the rows of the other models' trims are still appended,
\* and stats['errors'] has increased by exactly 1 for the failed model.
C3_Original ==
  /\ OneModelFailed => OtherModelsRows
  /\ ModelFetchFailed => stats.errors = req.errors0 + 1

\* C3 as amended - the rows of the other models' trims are still appended,
\* and stats['errors'] has increased by exactly max_retries (one per failed
\* attempt) for the failed model.
C3_Amended ==
  /\ OneModelFailed => OtherModelsRows
  /\ ModelFetchFailed => stats.errors = req.errors0 + max_retries

\* a brand with two models ended: one model page failed three times, the
\* other model's trim has its row
C3_Witness ==
  /\ OneModelFailed
  /\ hist.discovered # {}
  /\ stats.errors = max_retries
  /\ Len(DataRows) >= 1

(* ======================= C4 ======================= *)
\* what one make_request call may do, in order, with the default bound
ExpectedTrace ==
  << [ev |-> "wait_politely", arg |-> 0], [ev |-> "get", arg |-> 1],
     [ev |-> "sleep", arg |-> 2],         [ev |-> "get", arg |-> 2],
     [ev |-> "sleep", arg |-> 4],         [ev |-> "get", arg |-> 3] >>

\* C4 - Bounded retry with pacing: a make_request call issues at most 3 GETs
\* and none after the first successful one; one politeness delay happens,
\* before the first GET; before the 2nd and the 3rd GET a backoff of 2 s and
\* 4 s happens and no politeness delay.
C4_BoundedRetry ==
  /\ IsPrefix(req.events, ExpectedTrace)
  /\ Len(req.events) <= 2 * max_retries
  /\ req.outcome = "ok" => pc # "make_request"
  /\ pc = "make_request" => Len(req.events) = 2 * req.attempt

\* a call whose third attempt succeeded
C4_Witness ==
  /\ req.outcome = "ok"
  /\ req.events = ExpectedTrace

(* ======================= C5 ======================= *)
\* C5 - Transport failure is a value: when every attempt fails make_request
\* returns None to its caller instead of raising, and get_brands, get_models
\* and get_trims then return an empty list.
C5_FailureIsValue ==
  /\ req.outcome = "failed" => pc # "crashed" /\ exit_code # 1
  /\ (req.outcome = "failed" /\ hist.by = req.ret) => hist.returned = <<>>

\* get_trims returned the empty list after its fetch had failed three times
C5_Witness ==
  /\ req.outcome = "failed"
  /\ req.ret = "get_trims"
  /\ hist.by = "get_trims"
  /\ hist.returned = <<>>
  /\ pc = "model_loop"

(* ======================= C6 ======================= *)
\* C6 - Error counter per attempt: every failed attempt of make_request adds
\* exactly 1 to stats['errors'] and a successful one adds nothing, so a call
\* adds the number of its failed attempts (0 to 3); the counter never decreases.
C6_ErrorsPerAttempt ==
  /\ [](req.outcome # "none" =>
          /\ stats.errors = req.errors0 + FailedAttempts
          /\ FailedAttempts \in 0..max_retries)
  /\ [][stats'.errors >= stats.errors]_vars

\* a call that succeeded at its second attempt, after earlier calls had failures
C6_Witness ==
  /\ req.outcome = "ok"
  /\ FailedAttempts = 1
  /\ req.errors0 = 2
  /\ stats.errors = 3

(* ======================= C7 ======================= *)
\* every loop that ended has visited all the entries of its list
SiblingsVisited ==
  /\ summary => hist.brands_visited = brands
  /\ (pc = "model_loop" /\ model_idx > Len(models)) =>
        hist.models_visited = NamesOf(models)
  /\ (pc = "trim_loop" /\ trim_idx > Len(trims)) =>
        hist.trims_visited = FullNamesOf(trims)

\* C7 - Termination: for every finite catalog and every pattern of fetch,
\* extraction and write failures a started run reaches its end, and no
\* failure keeps the remaining trims, models or brands from being visited.
C7_Termination ==
  /\ (pc = "constructed") ~> (pc = "exited")
  /\ []SiblingsVisited

\* a run that ended after a detail page had failed on every attempt
C7_Witness ==
  /\ pc = "exited"
  /\ summary
  /\ stats.trims_processed = 1
  /\ stats.errors = max_retries /\ faults = max_retries
  /\ DataRows = <<>>
  /\ stats.brands_processed = Len(brands)

(* ======================= C8 ======================= *)
\* C8 as stated - Summary always printed: every run ends by emitting the
\* final summary, also when the catalog root page fails.
C8_Original == pc = "exited" => summary

\* C8 as amended - a run ends by emitting the final summary exactly when
\* get_brands returned at least one brand (whatever brand, model and trim
\* pages failed afterwards); when the root page fails or lists no brand the
\* run logs "No brands found on website" and returns without the summary.
C8_Amended == pc = "exited" => (summary <=> hist.root_found > 0)

\* the only brand's page failed on every attempt and the summary was emitted
C8_Witness ==
  /\ pc = "exited"
  /\ summary
  /\ Len(brands) = 1
  /\ hist.brands_visited = brands
  /\ hist.by = "get_models" /\ hist.returned = <<>>
  /\ stats.errors = max_retries
  /\ stats.brands_processed = 0

(* ======================= C9 ======================= *)
\* C9 - Configuration error is fatal: when the feature dictionary is missing
\* or unparseable the run does not proceed: no page is fetched, the dataset
\* file is not created, and the failure is reported once.
C9_ConfigFatal ==
  hist.dict \in {"missing", "malformed"} =>
    /\ pc = "crashed"
    /\ exit_code = 1
    /\ last_io = "none" /\ req = NoReq
    /\ csv_file = <<>>
    /\ stats.start_time = "None"
    /\ logger_errors = 1

\* construction ended in the handler of load_features_mapping
C9_Witness ==
  /\ hist.dict = "malformed"
  /\ pc = "crashed"
  /\ "error_log_filename" \notin attrs

(* ======================= C10 ======================= *)
\* C10 as stated - Exit outcome: exit code 0 whenever the crawl completes,
\* non-zero when the catalog root page cannot be fetched after all retries.
C10_Original ==
  pc = "exited" => IF hist.root_failed THEN exit_code # 0 ELSE exit_code = 0

\* C10 as amended - the entry point ends with exit code 0 whenever
\* scrape_all_brands_and_models returns, which includes the run that could
\* not fetch the catalog root page after all retries.
C10_Amended == pc = "exited" => exit_code = 0

\* the root page failed on every attempt and the process exited with 0
C10_Witness ==
  /\ pc = "exited"
  /\ hist.root_failed
  /\ exit_code = 0
  /\ ~summary

(* ======================= C11 ======================= *)
\* position of the crawl in the three nested loops
Pos == << brand_idx, model_idx, trim_idx >>

\* lexicographic order on positions
LexLE(p, q) ==
  \/ p[1] < q[1]
  \/ p[1] = q[1] /\ p[2] < q[2]
  \/ p[1] = q[1] /\ p[2] = q[2] /\ p[3] <= q[3]

\* the entries visited so far are the first entries of the lists the
\* discovery calls returned, in their order
VisitedInOrder ==
  /\ IsPrefix(hist.brands_visited, brands)
  /\ IsPrefix(hist.models_visited, NamesOf(models))
  /\ IsPrefix(hist.trims_visited, FullNamesOf(trims))

\* this step wrote a line into the already initialised dataset
RowWritten == csv_file # <<>> /\ csv_file' # csv_file

\* the written line is the row of the trim at the current position, it is
\* the last line of the file and the lines above it are the old ones
RowOfCurrentTrimAtEnd ==
  /\ Len(csv_file') = Len(csv_file) + 1
  /\ SubSeq(csv_file', 1, Len(csv_file)) = csv_file
  /\ CarTrim(csv_file'[Len(csv_file')]) = << trims[trim_idx].full_name >>
  /\ csv_file'[Len(csv_file')][1] = << brands[brand_idx] >>
  /\ csv_file'[Len(csv_file')][2] = << models[model_idx].name >>
  /\ trim_idx' = trim_idx + 1

\* C11 - Deterministic output order: brands, models and trims are processed
\* in the order the discovery calls returned them, the position in the three
\* loops only moves forward, and every row is written at the end of the
\* dataset while its trim is the current one, so the rows appear in
\* discovery order.
C11_OutputOrder ==
  /\ []VisitedInOrder
  /\ [][LexLE(Pos, Pos')]_vars
  /\ [][RowWritten => RowOfCurrentTrimAtEnd]_vars

\* two different trims of one model page were processed and their rows are
\* in the dataset in the order get_trims returned them
C11_Witness ==
  /\ pc = "trim_loop" /\ trim_idx = 3
  /\ trims[1].full_name # trims[2].full_name
  /\ Len(DataRows) = 2
  /\ CarTrim(DataRows[1]) = << trims[1].full_name >>
  /\ CarTrim(DataRows[2]) = << trims[2].full_name >>

(* ======================= C12 ======================= *)
\* brand b belongs to the include-list (or none was given) and not to the
\* exclude-list
InScope(b) ==
  /\ specific_brands = <<>> \/ b \in Range(specific_brands)
  /\ b \notin Range(excluded_brands)

\* place of x in a list without repetitions
IndexIn(list, x) == CHOOSE i \in 1..Len(list) : list[i] = x

\* kept holds exactly the in-scope entries of found, once each, in the
\* order of found
ScopedInOrder(kept, found) ==
  /\ Range(kept) = { b \in Range(found) : InScope(b) }
  /\ \A i, j \in 1..Len(kept) :
        i < j => IndexIn(found, kept[i]) < IndexIn(found, kept[j])

\* this step is the return of get_brands with a non-empty list
BrandsReturned ==
  hist.by # "get_brands" /\ hist'.by = "get_brands" /\ hist'.returned # <<>>

HasRow(T) == \E i \in 1..Len(DataRows) : CarTrim(DataRows[i]) = <<T>>

\* C13 - Mark-seen ordering: an identity is in the dedup set only after its
\* row was successfully appended to the dataset; after a failed append the
\* identity is not in the dedup set.
C13_MarkSeenAfterAppend == \A T \in scraped_trims : HasRow(T)

(* ======================= C14 ======================= *)
\* this step is a scrape_trim_data whose detail page was fetched and whose
\* save_row_to_csv failed inside
AppendFailed ==
  /\ pc = "make_request" /\ req.ret = "scrape_trim_data"
  /\ req'.outcome = "ok"
  /\ csv_file' = csv_file

\* the failure was logged and the trim loop goes on with the next trim
LoggedAndContinued ==
  /\ logger_errors' = logger_errors + 1
  /\ error_log_lines' = error_log_lines + 1
  /\ pc' = "trim_loop" /\ trim_idx' = trim_idx + 1
  /\ brand_idx' = brand_idx /\ model_idx' = model_idx /\ trims' = trims

InitializeCsvStep == pc = "constructed" /\ pc' # "constructed"

\* the file holds the header line and nothing else
HeaderOnly == csv_file' = << Headers(features_mapping) >>

\* one complete line was added at the end, the lines above are untouched
OneRowAppended ==
  /\ csv_file # <<>>
  /\ Len(csv_file') = Len(csv_file) + 1
  /\ SubSeq(csv_file', 1, Len(csv_file)) = csv_file
  /\ Len(csv_file'[Len(csv_file')]) = Len(csv_file[1])

MaxDict == 2
\* at most this many blocks on a detail page
MaxBlocks == 2

\* rows features_mapping.csv may hold
FeaturePool ==
  { [website |-> "installment", output_csv |-> "Installment", d_type |-> "bool"],
    [website |-> "minimum installment", output_csv |-> "Minimum_Installment",
     d_type |-> "int"],
    [website |-> "Official Price ", output_csv |-> "Official_Price_EGP",
     d_type |-> "int"],
    [website |-> "market price", output_csv |-> "Market_Price_EGP", d_type |-> "int"],
    [website |-> "market price", output_csv |-> "Market_Price_EGP",
     d_type |-> "float"] }
FeaturesFiles == SeqsUpTo(FeaturePool, MaxDict)

\* what a page shows next to a key
ValueTexts == { <<>>, <<"5000", "egp">>, <<"0">>, <<"no">> }
PageKeys == {"installment", "minimum installment", "official price", "market price"}

\* a key and its value in one text, or in two sibling elements
PageBlocks ==
  { Block(tag, << Words(key) \o val >>) :
      tag \in {"p", "tr", "li"}, key \in PageKeys, val \in ValueTexts }
  \cup
  { Block(tag, << Words(key), val >>) :
      tag \in {"tr", "li"}, key \in PageKeys, val \in ValueTexts \ {<<>>} }
ExtractPages == { DetailPage(b) : b \in SeqsUpTo(PageBlocks, MaxBlocks) }

\* the scraper constructed on a dictionary file, its output file initialized,
\* the crawl at the first trim of the first model of the first brand, the
\* request for the trim's detail page made
ExtractInit ==
  /\ \E file \in FeaturesFiles :
       /\ features_mapping = LoadMapping(file, <<>>)
       /\ csv_file = << Headers(LoadMapping(file, <<>>)) >>
  /\ pc = "make_request"
  /\ attrs = AttrsAtLoad \cup AttrsAfterLoad
  /\ scraped_trims = {}
  /\ stats = [brands_processed |-> 0, models_processed |-> 0,
              trims_processed |-> 0, errors |-> 0, start_time |-> "set"]
  /\ specific_brands = <<>> /\ excluded_brands = <<>>
  /\ brands = <<"bmw">> /\ brand_idx = 1
  /\ models = << [name |-> "rio", url |-> <<"bmw", "rio">>] >> /\ model_idx = 1
  /\ trims = << [name |-> "base", full_name |-> FullName("bmw", "rio", "base"),
                 url |-> <<"bmw", "rio", "base">>] >>
  /\ trim_idx = 1
  /\ req = [url |-> <<"bmw", "rio", "base">>, attempt |-> 0,
            ret |-> "scrape_trim_data", events |-> <<>>, errors0 |-> 0,
            outcome |-> "running"]
  /\ logger_errors = 0
  /\ error_log_lines = 0
  /\ summary = FALSE
  /\ exit_code = -1
  /\ last_io = "none"
  /\ faults = 0
  /\ served = 0
  /\ soup = None
  /\ row_data = <<>>
  /\ hist = RunHist @@ BrandHist @@ CallHist

\* everything but the locals of scrape_trim_data, the output and the position
ExtractRest ==
  << features_mapping, attrs, stats, Args, Crawl, Logs, summary, exit_code,
     faults, served, hist >>

\* a step of scrape_trim_data that only rewrites row_data
RowStep(to, row) ==
  /\ row_data' = row
  /\ pc' = to
  /\ UNCHANGED << ExtractRest, csv_file, scraped_trims, soup, req, last_io >>

\* make_request returns the parsed page; row_data gets the identity fields
detail_page_fetched ==
  /\ pc = "make_request"
  /\ \E page \in ExtractPages : soup' = page
  /\ req' = [req EXCEPT !.events = @ \o AttemptEvents(req.attempt),
                        !.outcome = "ok"]
  /\ last_io' = "get"
  /\ row_data' = InitialRow(brands[brand_idx], models[model_idx].name,
                            trims[trim_idx])
  /\ pc' = "price_patterns"
  /\ UNCHANGED << ExtractRest, csv_file, scraped_trims >>

\* scrape_basic_info: the loop over price_patterns
price_patterns ==
  /\ pc = "price_patterns"
  /\ RowStep("table_cells",
          PricePatterns(features_mapping, AllText(soup), row_data, 1))

\* scrape_basic_info: the loop over table cells
table_cells ==
  /\ pc = "table_cells"
  /\ RowStep("full_text",
          ScanCells(features_mapping, TableCells(soup.blocks), row_data))

\* scrape_specifications: the loop over sorted_features
full_text ==
  /\ pc = "full_text"
  /\ RowStep("sections",
          FullText(SortedFeatures(features_mapping), AllText(soup), row_data))

\* scrape_specifications: the sections under the headings
sections ==
  /\ pc = "sections"
  /\ RowStep("table_rows",
          ExtractFeaturesFromSection(features_mapping,
                                     SectionElements(soup.blocks), row_data))

\* scrape_specifications: the loop over table rows
table_rows ==
  /\ pc = "table_rows"
  /\ RowStep("post_fill",
          ScanCells(features_mapping, TableRows(soup.blocks), row_data))

\* the price post-fill of scrape_trim_data
post_fill ==
  /\ pc = "post_fill"
  /\ RowStep("save_row_to_csv", PostFill(row_data))

\* save_row_to_csv(row_data) and self.scraped_trims.add
save_row_to_csv ==
  /\ pc = "save_row_to_csv"
  /\ SaveRowToCsv(row_data, TRUE)
  /\ scraped_trims' = scraped_trims \cup {trims[trim_idx].full_name}
  /\ pc' = "saved"
  /\ UNCHANGED << features_mapping, attrs, stats, Args, Crawl, summary,
                  exit_code, served, hist, soup, row_data, req, last_io >>

ExtractNext ==
  \/ detail_page_fetched
  \/ price_patterns
  \/ table_cells
  \/ full_text
  \/ sections
  \/ table_rows
  \/ post_fill
  \/ save_row_to_csv

ExtractSpec == ExtractInit /\ [][ExtractNext]_vars

\* the rows of one detail page are the same whether built in one go or pass by pass
ExtractTypeOK ==
  /\ pc = "save_row_to_csv" =>
       row_data = BuildRow(features_mapping, brands[brand_idx],
                           models[model_idx].name, trims[trim_idx], soup)
  /\ pc \in {"make_request", "price_patterns", "table_cells", "full_text",
             "sections", "table_rows", "post_fill", "save_row_to_csv", "saved"}

(* ======================= C15 ======================= *)
\* the header line: the identity columns, then one column per dictionary
\* entry, in dict order
HeaderShape ==
  csv_file # <<>> =>
    /\ Len(csv_file[1]) = 3 + Len(features_mapping)
    /\ SubSeq(csv_file[1], 1, 3) = <<"car_brand", "car_model", "car_trim">>
    /\ \A i \in 1..Len(features_mapping) :
         csv_file[1][3 + i] = features_mapping[i].output_csv

\* the line save_row_to_csv adds: one field per header column, the row's
\* value for the column or the empty field
RowShape ==
  /\ Len(csv_file') = Len(csv_file) + 1
  /\ Len(csv_file'[Len(csv_file')]) = Len(csv_file[1])
  /\ \A i \in 1..Len(csv_file[1]) :
       csv_file'[Len(csv_file')][i] =
         IF csv_file[1][i] \in DOMAIN row_data
         THEN << row_data[csv_file[1][i]] >> ELSE Empty

\* C15 - Row shape: the header is car_brand, car_model, car_trim followed by
\* the output_csv name of every dictionary entry in load order, and every
\* row appended by save_row_to_csv has as many fields as the header, field i
\* holding the row's value for header column i, or the empty field when the
\* row has none.
C15_RowShape ==
  /\ []HeaderShape
  /\ [][pc = "save_row_to_csv" => RowShape]_vars

\* a saved row with a value in its first mapped column and none in the second
C15_Witness ==
  /\ pc = "saved"
  /\ Len(features_mapping) = 2
  /\ Len(csv_file) = 2
  /\ Len(csv_file[2]) = 5
  /\ csv_file[2][1] = <<"bmw">>
  /\ csv_file[2][4] # Empty
  /\ csv_file[2][5] = Empty

(* ======================= C17 ======================= *)
\* the Python type a d_type declares
DeclaredKind(d_type) ==
  CASE d_type = "int" -> "int"
    [] d_type = "float" -> "float"
    [] d_type = "bool" -> "bool"
    [] OTHER -> "str"

\* every mapped field present in the row has a value of its declared kind
Conforms(row) ==
  \A i \in 1..Len(features_mapping) :
    features_mapping[i].output_csv \in DOMAIN row =>
      row[features_mapping[i].output_csv].kind =
        DeclaredKind(features_mapping[i].d_type)

\* the rows left by the extraction passes, before the post-fill, conform
PassesConform ==
  pc \in {"table_cells", "full_text", "sections", "table_rows", "post_fill"}
    => Conforms(row_data)

\* C17 - Type conformance: in every row handed to the writer, every mapped
\* field that is present has a value of the kind its dictionary entry
\* declares, whichever pass set it; a value that cannot be converted is left
\* absent, never stored as a sentinel or as a value of another kind.
C17_TypeConformance == pc = "save_row_to_csv" => Conforms(row_data)

(* ======================= C18 ======================= *)
\* the bool-typed entries of the dictionary
BoolEntries ==
  { i \in 1..Len(features_mapping) : features_mapping[i].d_type = "bool" }

\* the table rows of the page whose first cell is matched to entry i and
\* whose second cell is not empty
RowsFor(i) ==
  SelectSeq(TableRows(soup.blocks),
            LAMBDA r : FirstMatch(features_mapping, r.text) = i /\ r.value_text # <<>>)

\* the value extraction leaves for bool entry i
BoolAfterExtraction(i) ==
  IF ~Contains(AllText(soup), features_mapping[i].website) THEN NoValue
  ELSE IF RowsFor(i) = <<>> THEN PyTrue
  ELSE IF RowsFor(i)[Len(RowsFor(i))].value_text
            \in { <<"no">>, <<"false">>, <<"n/a">>, <<"not", "available">> }
       THEN PyFalse
       ELSE PyTrue

\* a pass that changes a bool field sets it to true
StoresOnlyTrue ==
  \A i \in BoolEntries :
    Get(row_data', features_mapping[i].output_csv)
        # Get(row_data, features_mapping[i].output_csv)
      => Get(row_data', features_mapping[i].output_csv) = PyTrue

\* C18 as stated - Boolean fields are true or absent: for every bool-typed
\* entry the row has the value true for its output field (the key occurs on
\* the page) or no value; no extraction pass ever stores false.
C18_Original ==
  \A i \in BoolEntries :
    features_mapping[i].output_csv \in DOMAIN row_data =>
      /\ row_data[features_mapping[i].output_csv] = PyTrue
      /\ Contains(AllText(soup), features_mapping[i].website)

\* C18 amended - for every bool-typed entry, after extraction the row has no
\* value for its output field when the key does not occur on the page, and
\* otherwise true or false: false exactly when the last table row matched to
\* the entry has a second cell reading no, false, n/a or not available; the
\* full-text and section passes store only true.
C18_Amended ==
  /\ [](pc \in {"post_fill", "save_row_to_csv"} =>
          \A i \in BoolEntries :
            Get(row_data, features_mapping[i].output_csv) = BoolAfterExtraction(i))
  /\ [][(pc \in {"full_text", "sections"}) => StoresOnlyTrue]_vars

\* a row about to be saved whose bool field is false, from a table row that
\* reads "installment | no"
C18_Witness ==
  /\ pc = "save_row_to_csv"
  /\ soup.blocks = << Block("tr", << <<"installment">>, <<"no">> >>) >>
  /\ 1 \in BoolEntries
  /\ Get(row_data, "Installment") = PyFalse

(* ======================= C19 ======================= *)
\* the dictionary holds the short key as a bool entry and the compound key
\* containing it as an int entry
ShortAndCompound ==
  /\ HasKey(features_mapping, "installment")
  /\ Lookup(features_mapping, "installment").d_type = "bool"
  /\ HasKey(features_mapping, "minimum installment")
  /\ Lookup(features_mapping, "minimum installment").d_type = "int"

\* the text of the page is the compound key followed by the number n
CompoundThenNumber(n) ==
  \/ AllText(soup) = Words("minimum installment") \o <<n>>
  \/ AllText(soup) = Words("minimum installment") \o <<n, "egp">>

\* C19 - Longest-key-first precedence on a page: with dictionary entries for
\* a short key ('installment', bool) and a compound key containing it
\* ('minimum installment', int), a page whose text is the compound key
\* followed by a number yields a row whose compound-key output field holds
\* that number, for either load order of the two entries.
C19_CompoundKeyWins ==
  (pc \in {"post_fill", "save_row_to_csv"} /\ ShortAndCompound) =>
    \A n \in NumberTokens :
      CompoundThenNumber(n) =>
        Get(row_data, Lookup(features_mapping, "minimum installment").output_csv)
          = Value("int", <<n>>)

\* the short key loaded first, the page a table row "minimum installment |
\* 5000 egp": the row to save has Minimum_Installment = 5000
C19_Witness ==
  /\ pc = "save_row_to_csv"
  /\ ShortAndCompound
  /\ features_mapping[1].website = "installment"
  /\ soup.blocks =
       << Block("tr", << <<"minimum", "installment">>, <<"5000", "egp">> >>) >>
  /\ Get(row_data, "Minimum_Installment") = Value("int", <<"5000">>)
  /\ Get(row_data, "Installment") = PyTrue

(* ======================= C20 ======================= *)
\* the fields other than Market_Price_EGP are the same before and after
OthersUnchanged ==
  /\ DOMAIN row_data' \ {"Market_Price_EGP"} = DOMAIN row_data \ {"Market_Price_EGP"}
  /\ \A f \in DOMAIN row_data \ {"Market_Price_EGP"} : row_data'[f] = row_data[f]

\* Market_Price_EGP is set to the value of Official_Price_EGP
MarketSetToOfficial ==
  /\ "Market_Price_EGP" \in DOMAIN row_data'
  /\ row_data'["Market_Price_EGP"] = row_data["Official_Price_EGP"]

\* Market_Price_EGP is as it was, present or not
MarketUnchanged ==
  /\ "Market_Price_EGP" \in DOMAIN row_data' <=> "Market_Price_EGP" \in DOMAIN row_data
  /\ "Market_Price_EGP" \in DOMAIN row_data =>
       row_data'["Market_Price_EGP"] = row_data["Market_Price_EGP"]

\* the row has no value for the field, or a zero, false or empty one
Blank(name) ==
  \/ name \notin DOMAIN row_data
  \/ row_data[name] \in { Value("int", <<"0">>), Value("float", <<"0">>),
                          PyFalse, Value("str", <<>>), NoValue }

C28_ModelsDistinct ==
  \A i, j \in 1..Len(models) : models[i].name = models[j].name => i = j

(* ======================= C23 ======================= *)
\* the step counts one more processed trim
TrimCounted == stats'.trims_processed = stats.trims_processed + 1

\* the trim loop goes on to the next entry of the same list
TrimIterationEnds == trims' = trims /\ trim_idx >= 1 /\ trim_idx' = trim_idx + 1

\* the step fetched the detail page of the current trim, new to the dedup
\* set, appended its row and marked it seen
TrimAppended ==
  /\ trim_idx \in 1..Len(trims)
  /\ trims[trim_idx].full_name \notin scraped_trims
  /\ trims[trim_idx].full_name \in scraped_trims'
  /\ csv_file # <<>>
  /\ Len(csv_file') = Len(csv_file) + 1
  /\ CarTrim(csv_file'[Len(csv_file')]) = << trims[trim_idx].full_name >>

\* C23 as stated - trims_processed counts appended trims: it is increased by
\* one exactly for each trim that was not already seen and whose detail page
\* was fetched, extracted, appended and marked seen, not for a trim skipped
\* as a duplicate or whose fetch failed, so at the end of the run it equals
\* the number of rows appended in the run.
C23_Original ==
  /\ [][stats'.trims_processed # stats.trims_processed
          => TrimCounted /\ TrimAppended]_vars
  /\ [][TrimAppended => TrimCounted]_vars
  /\ [](summary => stats.trims_processed = Len(DataRows))

\* C23 as amended - trims_processed is increased by one each time the trim
\* loop finishes an entry of the list get_trims returned, whatever
\* scrape_trim_data did (row appended, duplicate skipped, fetch failed,
\* append failed), and by nothing else; it is at least the number of rows
\* appended in the run.
C23_Amended ==
  /\ [][stats'.trims_processed # stats.trims_processed
          => TrimCounted /\ TrimIterationEnds]_vars
  /\ [][TrimIterationEnds => TrimCounted]_vars
  /\ [](stats.trims_processed >= Len(DataRows))

\* a run without any failure that ended with two trims counted and one row:
\* the second entry was skipped as a duplicate
C23_Witness ==
  /\ pc = "exited"
  /\ summary
  /\ stats.trims_processed = 2
  /\ Len(DataRows) = 1
  /\ logger_errors = 0
  /\ stats.errors = 0

(* ======================= C26 ======================= *)
IsWait(e) == e.ev \in {"wait_politely", "sleep"}

\* every GET of the call is issued right after a wait of the same call
GetsPaced(events) ==
  \A i \in 1..Len(events) :
    events[i].ev = "get" => i > 1 /\ IsWait(events[i - 1])

\* a step in which make_request does something does a wait, then a GET
WaitThenGet ==
  /\ Len(req'.events) = Len(req.events) + 2
  /\ SubSeq(req'.events, 1, Len(req.events)) = req.events
  /\ IsWait(req'.events[Len(req.events) + 1])
  /\ req'.events[Len(req.events) + 2].ev = "get"

\* C26 - No two requests without a wait: before every HTTP GET issued by
\* make_request there is a wait (the politeness delay before a first attempt,
\* the backoff before a retry) that happens after the previous GET, so no
\* two GETs are issued back to back, across retries, pages, models and brands.
C26_WaitBeforeEveryGet ==
  /\ []GetsPaced(req.events)
  /\ [][(req'.events # req.events /\ req'.events # <<>>) => WaitThenGet]_vars

\* the request for the models of the second brand, its first GET failed and
\* the retry issued after the backoff
C26_Witness ==
  /\ req.ret = "get_models"
  /\ brand_idx = 2
  /\ Len(req.events) = 4
  /\ req.events[3] = [ev |-> "sleep", arg |-> 2]
  /\ req.events[4].ev = "get"

(* ======================= C27 ======================= *)
\* a step of a scrape_trim_data call whose fetch has not succeeded: a failed
\* attempt, or the return after the last one
FailedFetchStep ==
  /\ req.ret = "scrape_trim_data"
  /\ pc \in {"make_request", "scrape_trim_data"}
  /\ req'.outcome # "ok"

\* C27 - Failed detail fetch changes nothing but the error count: when the
\* fetch of a trim's detail page fails on every attempt, scrape_trim_data
\* appends no row for the trim and does not add its identity to
\* scraped_trims; the dataset file and the dedup set are the same after the
\* call as before it, so the identity is still eligible if discovered again.
C27_FailedFetchFrame ==
  /\ [][FailedFetchStep =>
          csv_file' = csv_file /\ scraped_trims' = scraped_trims]_vars
  /\ []((pc = "scrape_trim_data" /\ req.outcome = "failed") =>
          /\ trims[trim_idx].full_name \notin scraped_trims
          /\ ~HasRow(trims[trim_idx].full_name))

\* back in the trim loop after the fetch of the first trim failed on every
\* attempt: only the header in the file, the identity not in the dedup set
C27_Witness ==
  /\ pc = "trim_loop"
  /\ trim_idx = 2
  /\ stats.errors = max_retries
  /\ logger_errors = max_retries + 1
  /\ Len(csv_file) = 1
  /\ trims[1].full_name \notin scraped_trims

(* ======================= C29 ======================= *)
\* the iteration of the current brand ends: the model loop of a brand with
\* models is exhausted
BrandIterationEnds ==
  /\ pc = "model_loop"
  /\ models # <<>>
  /\ model_idx > Len(models)
  /\ brand_idx' = brand_idx + 1

\* the iteration of the current model ends: the trim loop of a model with
\* trims is exhausted
ModelIterationEnds ==
  /\ pc = "trim_loop"
  /\ trims # <<>>
  /\ trim_idx > Len(trims)
  /\ model_idx' = model_idx + 1

\* get_models or get_trims returns an empty list from a page that was fetched
EmptyResultStep ==
  /\ pc = "make_request"
  /\ req.ret \in {"get_models", "get_trims"}
  /\ req'.outcome = "ok"
  /\ pc' = (IF req.ret = "get_models" THEN "brand_loop" ELSE "model_loop")

\* C29 - Progress counters: brands_processed is at most the number of brands
\* whose iteration has finished and models_processed at most the number of
\* models whose iteration has finished; each is increased, by one, only at
\* the end of the iteration of a brand whose model list was non-empty, or of
\* a model whose trim list was non-empty; a brand with zero models and a
\* model with zero trims are skipped without being counted and without an
\* error being counted for the empty result.
C29_ProgressCounters ==
  /\ [](stats.brands_processed <= (IF brand_idx = 0 THEN 0 ELSE brand_idx - 1))
  /\ [](stats.models_processed <= stats.trims_processed)
  /\ [][stats'.brands_processed # stats.brands_processed =>
          /\ stats'.brands_processed = stats.brands_processed + 1
          /\ BrandIterationEnds]_vars
  /\ [][stats'.models_processed # stats.models_processed =>
          /\ stats'.models_processed = stats.models_processed + 1
          /\ ModelIterationEnds]_vars
  /\ [][EmptyResultStep =>
          /\ stats' = stats
          /\ logger_errors' = logger_errors
          /\ error_log_lines' = error_log_lines]_vars

\* a finished run over two brands without a single failure: one brand had no
\* models and is not counted, the other had models, none of which had trims
C29_Witness ==
  /\ pc = "exited"
  /\ Len(brands) = 2
  /\ stats.brands_processed = 1
  /\ stats.models_processed = 0
  /\ stats.errors = 0
  /\ logger_errors = 0

(* ======================= C24 ======================= *)
\* the row a walk leaves is the one it would leave with the keys tried
\* longest first
TableCellsLongestFirst ==
  row_data' = ScanCells(SortedFeatures(features_mapping),
                        TableCells(soup.blocks), row_data)
FullTextLongestFirst ==
  row_data' = FullText(SortedFeatures(features_mapping), AllText(soup), row_data)
SectionsLongestFirst ==
  row_data' = ExtractFeaturesFromSection(SortedFeatures(features_mapping),
                                         SectionElements(soup.blocks), row_data)
TableRowsLongestFirst ==
  row_data' = ScanCells(SortedFeatures(features_mapping),
                        TableRows(soup.blocks), row_data)

\* C24 - Longest-key-first in every lookup: in the table-cell walk, the
\* full-text walk, the heading-section walk and the table-row walk the keys
\* are tried longest first, so that for a text containing a compound key and
\* a shorter key contained in it the compound key is the one matched: each
\* walk leaves the row it would leave with the dictionary sorted by key
\* length, longest first.
C24_LongestKeyFirst ==
  /\ [][(pc = "table_cells") => TableCellsLongestFirst]_vars
  /\ [][(pc = "full_text") => FullTextLongestFirst]_vars
  /\ [][(pc = "sections") => SectionsLongestFirst]_vars
  /\ [][(pc = "table_rows") => TableRowsLongestFirst]_vars

(* ======================= C30 ======================= *)
\* the fields the dictionary can fill
OutputFields == { features_mapping[i].output_csv : i \in 1..Len(features_mapping) }

\* the row pass p of scrape_trim_data stores into, started from the identity
\* fields alone: (1) price patterns, (2) table cells, (3) full text,
\* (4) sections, (5) table rows
PassYield(p) ==
  LET row == InitialRow(brands[brand_idx], models[model_idx].name, trims[trim_idx])
  IN CASE p = 1 -> PricePatterns(features_mapping, AllText(soup), row, 1)
       [] p = 2 -> ScanCells(features_mapping, TableCells(soup.blocks), row)
       [] p = 3 -> FullText(SortedFeatures(features_mapping), AllText(soup), row)
       [] p = 4 -> ExtractFeaturesFromSection(features_mapping,
                                              SectionElements(soup.blocks), row)
       [] OTHER -> ScanCells(features_mapping, TableRows(soup.blocks), row)

\* the passes that yield a value for the field
YieldingPasses(f) == { p \in 1..5 : f \in DOMAIN PassYield(p) }

\* the last of some passes
LatestPass(passes) == CHOOSE p \in passes : \A q \in passes : q <= p

\* C30 - Last pass wins: the row handed to the post-fill holds, for every
\* output field, the value of the latest pass that yields one for it, in the
\* order price patterns, table cells, full text, sections, table rows; a
\* later pass that yields nothing for the field leaves the earlier value,
\* and a field no pass yields is not in the row.
C30_LastPassWins ==
  (pc = "post_fill") =>
    \A f \in OutputFields :
      IF YieldingPasses(f) = {}
      THEN f \notin DOMAIN row_data
      ELSE /\ f \in DOMAIN row_data
           /\ row_data[f] = PassYield(LatestPass(YieldingPasses(f)))[f]

\* at the post-fill: the full-text pass yielded Installment = True and the
\* later table-row pass False, the row holds False; Minimum_Installment came
\* from the price patterns and the full text, the later passes yielded
\* nothing for it, the row still holds 5000
C30_Witness ==
  /\ pc = "post_fill"
  /\ Get(PassYield(3), "Installment") = PyTrue
  /\ Get(PassYield(5), "Installment") = PyFalse
  /\ Get(row_data, "Installment") = PyFalse
  /\ YieldingPasses("Minimum_Installment") = {1, 3}
  /\ Get(row_data, "Minimum_Installment") = Value("int", <<"5000">>)

(* ================================================================== *)
(* a discovery method called twice on the same page, with the trims    *)
(* at hand scraped between the two calls                               *)
(* ================================================================== *)
\* the methods called
DiscoveryCalls == {"get_brands", "get_models", "get_trims"}

\* pages served to a call, by the method that fetches them
PagesFor(call) ==
  CASE call = "get_brands" -> RootPages
    [] call = "get_models" -> BrandPages
    [] OTHER -> ModelPages

\* the list the call returns from the page make_request returned
Discover(call, page, seen) ==
  CASE call = "get_brands" -> ParseBrands(page.anchors, <<>>)
    [] call = "get_models" -> ParseModels(brands[brand_idx], page.anchors, <<>>)
    [] OTHER -> ParseTrims(brands[brand_idx], models[model_idx].name,
                           page.anchors, seen)

\* the scraper constructed and its output file initialized; the site serves
\* one page to the method called; brand kia and model rio are the arguments
\* of get_models and get_trims; a trim of another page is at hand when the
\* method is not get_trims
DiscoverInit ==
  /\ pc = "first_call"
  /\ features_mapping = LoadMapping(FeaturesFile, <<>>)
  /\ csv_file = << Headers(LoadMapping(FeaturesFile, <<>>)) >>
  /\ attrs = AttrsAtLoad \cup AttrsAfterLoad
  /\ scraped_trims = {}
  /\ stats = [brands_processed |-> 0, models_processed |-> 0,
              trims_processed |-> 0, errors |-> 0, start_time |-> "None"]
  /\ specific_brands = <<>> /\ excluded_brands = <<>>
  /\ brands = <<"kia">> /\ brand_idx = 1
  /\ models = << [name |-> "rio", url |-> <<"kia", "rio">>] >> /\ model_idx = 1
  /\ \E call \in DiscoveryCalls :
       /\ req = [NoReq EXCEPT !.ret = call]
       /\ soup \in PagesFor(call)
       /\ trims = IF call = "get_trims" THEN <<>>
                  ELSE << [name |-> "base",
                           full_name |-> FullName("kia", "rio", "base"),
                           url |-> <<"kia", "rio", "base">>] >>
  /\ trim_idx = 1
  /\ logger_errors = 0
  /\ error_log_lines = 0
  /\ summary = FALSE
  /\ exit_code = -1
  /\ last_io = "none"
  /\ faults = 0
  /\ served = 0
  /\ row_data = <<>>
  /\ hist = [again |-> <<>>] @@ RunHist @@ BrandHist @@ CallHist

\* what no step between construction and the second call touches
DiscoverRest ==
  << features_mapping, attrs, Args, brands, brand_idx, models, model_idx,
     req, summary, exit_code, served, soup, row_data >>

\* the first call: fetch, parse, return; a list of trims is then the list
\* the caller walks
discover_first ==
  /\ pc = "first_call"
  /\ LET found == Discover(req.ret, soup, scraped_trims)
     IN /\ hist' = [hist EXCEPT !.by = req.ret, !.returned = found,
                                !.seen = scraped_trims]
        /\ trims' = IF req.ret = "get_trims" THEN found ELSE trims
  /\ last_io' = "get"
  /\ pc' = "between"
  /\ UNCHANGED << DiscoverRest, csv_file, scraped_trims, stats, trim_idx, Logs,
                  faults >>

\* scrape_trim_data on the next trim at hand: page fetched, row appended,
\* identity marked
scrape_discovered_trim ==
  /\ pc = "between"
  /\ trim_idx <= Len(trims)
  /\ ~AlreadyScraped(trims[trim_idx].full_name, scraped_trims)
  /\ \E page \in DetailPages : ScrapeTrimData(page, TRUE)
  /\ stats' = [stats EXCEPT !.trims_processed = @ + 1]
  /\ trim_idx' = trim_idx + 1
  /\ last_io' = "get"
  /\ UNCHANGED << DiscoverRest, trims, pc >>

\* scrape_trim_data on the next trim at hand returns at "Skipping duplicate
\* trim"
skip_discovered_trim ==
  /\ pc = "between"
  /\ trim_idx <= Len(trims)
  /\ AlreadyScraped(trims[trim_idx].full_name, scraped_trims)
  /\ stats' = [stats EXCEPT !.trims_processed = @ + 1]
  /\ trim_idx' = trim_idx + 1
  /\ UNCHANGED << DiscoverRest, csv_file, scraped_trims, trims, pc, Logs,
                  faults, last_io, hist >>

\* scrape_trim_data on the next trim at hand fails to fetch the detail page
\* on every attempt
discovered_trim_not_fetched ==
  /\ pc = "between"
  /\ trim_idx <= Len(trims)
  /\ ~AlreadyScraped(trims[trim_idx].full_name, scraped_trims)
  /\ faults + max_retries <= MaxFaults
  /\ faults' = faults + max_retries
  /\ stats' = [stats EXCEPT !.errors = @ + max_retries,
                            !.trims_processed = @ + 1]
  /\ LogError(max_retries + 1)
  /\ trim_idx' = trim_idx + 1
  /\ last_io' = "get"
  /\ UNCHANGED << DiscoverRest, csv_file, scraped_trims, trims, pc, hist >>

\* the second call of the same method on the same page
discover_again ==
  /\ pc = "between"
  /\ hist' = [hist EXCEPT !.again = Discover(req.ret, soup, scraped_trims)]
  /\ last_io' = "get"
  /\ pc' = "done"
  /\ UNCHANGED << DiscoverRest, csv_file, scraped_trims, stats, trims, trim_idx,
                  Logs, faults >>

DiscoverNext ==
  \/ discover_first
  \/ scrape_discovered_trim
  \/ skip_discovered_trim
  \/ discovered_trim_not_fetched
  \/ discover_again

DiscoverSpec == DiscoverInit /\ [][DiscoverNext]_vars

HasDirectAnchor(page) == \E i \in 1..Len(page.anchors) : page.anchors[i].exact

\* the list get_trims would return if it scanned the table rows exactly when
\* the page has no direct trim anchor
DirectUnlessNone(page, seen) ==
  ScanTrims(brands[brand_idx], models[model_idx].name, page.anchors, seen,
            HasDirectAnchor(page), <<>>)

\* C25 - Fallback only without direct anchors: get_trims scans the table
\* rows if and only if the model page has no direct trim anchor; when the
\* page has direct trim anchors the returned list holds only the trims of
\* those anchors (none when all are in the dedup set).
C25_FallbackOnlyWithoutDirect ==
  (req.ret = "get_trims") =>
    /\ pc \in {"between", "done"} =>
         hist.returned = DirectUnlessNone(soup, hist.seen)
    /\ pc = "done" => hist.again = DirectUnlessNone(soup, scraped_trims)

(* ================================================================== *)
(* a run over the trims of one model, statement by statement through   *)
(* the file writes, interrupted from outside at any point              *)
(* ================================================================== *)
\* KeyboardInterrupt raised in the main thread, or the process killed
Signals == {"SIGINT", "SIGKILL"}

\* the lines written to the open file object and not yet flushed
BufferedLines ==
  CASE pc = "header_buffered" -> << Headers(features_mapping) >>
    [] pc = "row_buffered" -> << CsvRow(csv_file[1], row_data) >>
    [] OTHER -> <<>>

\* variant: the flush of a buffered line stops before its last field
Flushed_partial(lines) ==
  [i \in 1..Len(lines) |-> SubSeq(lines[i], 1, Len(lines[i]) - 1)]

\* what the flush of the file object at close puts at the end of the file
Flushed(lines) == lines

\* the scraper constructed on the dictionary, the output file absent, two
\* trims of one model to scrape
CancelInit ==
  /\ pc = "constructed"
  /\ features_mapping = LoadMapping(FeaturesFile, <<>>)
  /\ csv_file = <<>>
  /\ attrs = AttrsAtLoad \cup AttrsAfterLoad
  /\ scraped_trims = {}
  /\ stats = [brands_processed |-> 0, models_processed |-> 0,
              trims_processed |-> 0, errors |-> 0, start_time |-> "None"]
  /\ specific_brands = <<>> /\ excluded_brands = <<>>
  /\ brands = <<"kia">> /\ brand_idx = 1
  /\ models = << [name |-> "rio", url |-> <<"kia", "rio">>] >> /\ model_idx = 1
  /\ trims = [i \in 1..2 |->
                LET label == IF i = 1 THEN "base" ELSE "top"
                IN [name |-> label, full_name |-> FullName("kia", "rio", label),
                    url |-> <<"kia", "rio", label>>]]
  /\ trim_idx = 1
  /\ req = NoReq
  /\ logger_errors = 0
  /\ error_log_lines = 0
  /\ summary = FALSE
  /\ exit_code = -1
  /\ last_io = "none"
  /\ faults = 0
  /\ served = 0
  /\ soup = None
  /\ row_data = <<>>
  /\ hist = [at |-> "none", signal |-> "none"] @@ RunHist @@ BrandHist @@ CallHist

\* what no step of this run touches
CancelRest ==
  << features_mapping, attrs, Args, brands, brand_idx, models, model_idx, trims,
     req, Logs, summary, faults, served, last_io >>

\* a step that only moves on
MoveTo(to) ==
  /\ pc' = to
  /\ UNCHANGED << CancelRest, csv_file, scraped_trims, stats, trim_idx, soup,
                  row_data, exit_code, hist >>

\* a step that closes the file object: its buffer reaches the file
CloseTo(to) ==
  /\ csv_file' = csv_file \o Flushed(BufferedLines)
  /\ pc' = to
  /\ UNCHANGED << CancelRest, scraped_trims, stats, trim_idx, soup, row_data,
                  exit_code, hist >>

\* initialize_csv: open(self.csv_filename, 'w') creates or truncates the file
csv_opened_for_write ==
  /\ pc = "constructed"
  /\ csv_file' = <<>>
  /\ pc' = "header_open"
  /\ UNCHANGED << CancelRest, scraped_trims, stats, trim_idx, soup, row_data,
                  exit_code, hist >>

\* initialize_csv: writer.writerow(headers)
header_written ==
  /\ pc = "header_open"
  /\ MoveTo("header_buffered")

\* initialize_csv: end of the with block
header_flushed ==
  /\ pc = "header_buffered"
  /\ CloseTo("trim_loop")

\* scrape_trim_data: the detail page fetched, row_data initialized
trim_page_fetched ==
  /\ pc = "trim_loop"
  /\ trim_idx <= Len(trims)
  /\ \E page \in DetailPages : soup' = page
  /\ row_data' = InitialRow(brands[brand_idx], models[model_idx].name,
                            trims[trim_idx])
  /\ pc' = "scrape_basic_info"
  /\ UNCHANGED << CancelRest, csv_file, scraped_trims, stats, trim_idx,
                  exit_code, hist >>

\* scrape_trim_data: scrape_basic_info(soup, row_data)
basic_info_scraped ==
  /\ pc = "scrape_basic_info"
  /\ row_data' = ScrapeBasicInfo(features_mapping, soup, row_data)
  /\ pc' = "scrape_specifications"
  /\ UNCHANGED << CancelRest, csv_file, scraped_trims, stats, trim_idx, soup,
                  exit_code, hist >>

\* scrape_trim_data: scrape_specifications(soup, row_data) and the post-fill
specifications_scraped ==
  /\ pc = "scrape_specifications"
  /\ row_data' = PostFill(ScrapeSpecifications(features_mapping, soup, row_data))
  /\ pc' = "row_built"
  /\ UNCHANGED << CancelRest, csv_file, scraped_trims, stats, trim_idx, soup,
                  exit_code, hist >>

\* save_row_to_csv: the header line read, the file opened with 'a'
csv_opened_for_append ==
  /\ pc = "row_built"
  /\ MoveTo("row_open")

\* save_row_to_csv: writer.writerow(row)
row_written ==
  /\ pc = "row_open"
  /\ MoveTo("row_buffered")

\* save_row_to_csv: end of the with block
row_flushed ==
  /\ pc = "row_buffered"
  /\ CloseTo("row_saved")

\* scrape_trim_data: self.scraped_trims.add, return; the loop counts the trim
trim_marked ==
  /\ pc = "row_saved"
  /\ scraped_trims' = scraped_trims \cup {trims[trim_idx].full_name}
  /\ stats' = [stats EXCEPT !.trims_processed = @ + 1]
  /\ trim_idx' = trim_idx + 1
  /\ soup' = None
  /\ row_data' = <<>>
  /\ pc' = "trim_loop"
  /\ UNCHANGED << CancelRest, csv_file, exit_code, hist >>

\* the trim loop is exhausted
crawl_finished ==
  /\ pc = "trim_loop"
  /\ trim_idx > Len(trims)
  /\ exit_code' = 0
  /\ pc' = "exited"
  /\ UNCHANGED << CancelRest, csv_file, scraped_trims, stats, trim_idx, soup,
                  row_data, hist >>

\* the run is interrupted from outside: KeyboardInterrupt is caught nowhere
\* and unwinds through the with block, which closes the file object; a
\* killed process runs nothing more and its buffer is lost
interrupt ==
  /\ pc \notin {"exited", "interrupted"}
  /\ \E signal \in Signals :
       /\ csv_file' = IF signal = "SIGINT"
                      THEN csv_file \o Flushed(BufferedLines)
                      ELSE csv_file
       /\ hist' = [hist EXCEPT !.at = pc, !.signal = signal]
       /\ exit_code' = IF signal = "SIGINT" THEN 130 ELSE 137
  /\ pc' = "interrupted"
  /\ UNCHANGED << CancelRest, scraped_trims, stats, trim_idx, soup, row_data >>

CancelNext ==
  \/ csv_opened_for_write
  \/ header_written
  \/ header_flushed
  \/ trim_page_fetched
  \/ basic_info_scraped
  \/ specifications_scraped
  \/ csv_opened_for_append
  \/ row_written
  \/ row_flushed
  \/ trim_marked
  \/ crawl_finished
  \/ interrupt

CancelSpec == CancelInit /\ [][CancelNext]_vars

(* ======================= C22 ======================= *)
\* the file is empty or holds the header line followed by complete rows
HeaderAndCompleteRows ==
  csv_file # <<>> =>
    /\ csv_file[1] = Headers(features_mapping)
    /\ \A i \in 2..Len(csv_file) : Len(csv_file[i]) = Len(csv_file[1])

\* the positions at which a row is being built and nothing of it is written
BuildingRow == {"scrape_basic_info", "scrape_specifications", "row_built", "row_open"}

\* the lines of the file that carry the identity
LinesOf(full_name) ==
  { i \in 2..Len(csv_file) : Len(csv_file[i]) >= 3 /\ csv_file[i][3] = <<full_name>> }

====
